---- MODULE Spec2Model ----
(***************************************************************************)
(* Investment & retirement calculator: the deterministic engines of        *)
(* src/src/utils/calculations.js (calculateAccumulationPhase,              *)
(* calculateDistributionPhase), and the goal solver and Monte Carlo engine *)
(* of src/unnamed/part_000.                                                *)
(*                                                                         *)
(* Numbers.  The program computes in JavaScript doubles.  The model keeps  *)
(* every money amount as an integer count of money units and every rate as *)
(* the whole-number percentage the program receives; a product with a rate *)
(* is the integer (amount * percent) \div denominator, i.e. fixed-point    *)
(* arithmetic that rounds down where a double rounds to nearest.           *)
(***************************************************************************)
EXTENDS Integers, Sequences, FiniteSets, TLC

VARIABLES
    call,               \* which exported function was called
    accParams,          \* first argument of calculateAccumulationPhase
    distParams,         \* first argument of calculateDistributionPhase
    lifeEvents,         \* the lifeEvents argument
    startingCorpus,     \* calculateDistributionPhase: startingCorpus
    accumulationYears,  \* calculateDistributionPhase: accumulationYears
    pc,                 \* position in the running function
    year,               \* loop variable of the year loop
    month,              \* loop variable of the month loop
    yearEvents,         \* events of this year still to be applied (forEach)
    balance,
    currentSIP,
    currentWithdrawal,
    totalInvested,      \* accumulation: totalInvested; distribution: totalContributed
    totalWithdrawn,
    survivalMonths,
    yr,                 \* the per-year locals declared at the top of the year loop
    yearlyData,         \* the records pushed so far
    ret,                \* the value returned
    goalIn,             \* argument of calculateRequiredSIP
    low,                \* calculateRequiredSIP: the bisection interval
    high,
    requiredSIP,
    iter,               \* calculateRequiredSIP: the loop variable i
    goalRet,            \* the value calculateRequiredSIP returns
    mcIn,               \* arguments of runMonteCarloSimulation
    results,            \* runMonteCarloSimulation: the results array
    mcRet,              \* the value runMonteCarloSimulation returns
    fullIn,             \* calculateFullSimulation: the lifeEvents argument
    accumulation,       \* calculateFullSimulation: the const accumulation
    fullRet,            \* the value calculateFullSimulation returns
    fnIn,               \* arguments of a function without loop state
    fnOut               \* the value that function returns

goalVars == <<goalIn, low, high, requiredSIP, iter, goalRet>>

mcVars == <<mcIn, results, mcRet>>

fullVars == <<fullIn, accumulation, fullRet>>

fnVars == <<fnIn, fnOut>>

engineVars == <<accParams, distParams, lifeEvents, startingCorpus,
                accumulationYears, year, month, yearEvents, balance, currentSIP,
                currentWithdrawal, totalInvested, totalWithdrawn, survivalMonths,
                yr, yearlyData, ret>>

vars == <<call, pc, engineVars, goalVars, mcVars, fullVars, fnVars>>

inputs == <<call, accParams, distParams, lifeEvents, startingCorpus,
            accumulationYears>>

-----------------------------------------------------------------------------
(* Bounds of the model *)

MaxAccYears == 2
MaxDistYears == 2
MaxEvents == 2

(* Program constants *)

MonthsPerYear == 12

-----------------------------------------------------------------------------
(* Arithmetic helpers *)

Max(a, b) == IF a >= b THEN a ELSE b
Min(a, b) == IF a <= b THEN a ELSE b

\* expectedReturnPercent / 100 / 12, kept as the percentage over this denominator
RateDen == 100 * MonthsPerYear

\* faulty variant: the month's interest is charged instead of credited
InterestCharged(b, pct) == 0 - ((b * pct) \div RateDen)

\* balance * monthlyRate
Interest(b, pct) == (b * pct) \div RateDen

\* x * (1 + pct / 100)
GrowBy(x, pct) == (x * (100 + pct)) \div 100

-----------------------------------------------------------------------------
(* Life events *)

NoLabel == 0
Null == [amount |-> 0, label |-> NoLabel, type |-> "null"]

Reverse(q) == [i \in 1..Len(q) |-> q[Len(q) + 1 - i]]

\* faulty variant: the year's events are taken last first
FilterYearReversed(events, y) == Reverse(SelectSeq(events, LAMBDA e : e.year = y))

FilterYear(events, y) == SelectSeq(events, LAMBDA e : e.year = y)

\* faulty variant: a withdrawal event is not floored at zero
EventBalanceOverdrawn(b, e) ==
    IF e.type = "addition" THEN b + e.amount
    ELSE IF e.type = "withdrawal" THEN b - e.amount
    ELSE b

EventBalance(b, e) ==
    IF e.type = "addition" THEN b + e.amount
    ELSE IF e.type = "withdrawal" THEN Max(0, b - e.amount)
    ELSE b

\* faulty variant: a withdrawal event is taken off the amount invested
EventInvestedNet(t, e) ==
    IF e.type = "addition" THEN t + e.amount
    ELSE IF e.type = "withdrawal" THEN t - e.amount
    ELSE t

EventInvested(t, e) == IF e.type = "addition" THEN t + e.amount ELSE t

EventAmount(a, e) ==
    IF e.type = "addition" THEN a + e.amount
    ELSE IF e.type = "withdrawal" THEN a - e.amount
    ELSE a

\* faulty variant: the record carries the year's event fields whatever the net
\* amount
LifeEventAlways(y) ==
    IF y.lifeEventType # "null"
    THEN [amount |-> y.lifeEventAmount, label |-> y.lifeEventLabel,
          type |-> y.lifeEventType]
    ELSE Null

LifeEventOf(y) ==
    IF y.lifeEventAmount # 0
    THEN [amount |-> y.lifeEventAmount, label |-> y.lifeEventLabel,
          type |-> y.lifeEventType]
    ELSE Null

YearLocals(b) ==
    [openingBalance |-> b, yearlyContribution |-> 0, yearlyInterest |-> 0,
     yearlyWithdrawal |-> 0, monthsThisYear |-> 0, lifeEventAmount |-> 0,
     lifeEventLabel |-> NoLabel, lifeEventType |-> "null"]

AfterEvent(y, e) ==
    [y EXCEPT !.lifeEventAmount = EventAmount(@, e),
              !.lifeEventLabel = e.label,
              !.lifeEventType = e.type]

-----------------------------------------------------------------------------
(* Inputs *)

LumpSums == {0, 1000}
SIPs == {0, 100}
StepUps == {0, 10}
AccReturns == {0, 12}
Inflations == {0, 6}

AccParamSet ==
    [initialLumpSum : LumpSums, baseMonthlySIP : SIPs,
     annualStepUpPercent : StepUps, expectedReturnPercent : AccReturns,
     durationYears : 0..MaxAccYears, inflationRatePercent : Inflations]

Withdrawals == {0, 50, 400}
WithdrawalGrowths == {0, 10}
OngoingSIPs == {0, 20}
DistReturns == {0, 12}
Corpora == {-500, 0, 1000}

\* the distribution parameters; the ongoing SIP steps up only when there is one
DistParamSet ==
    { p \in [initialMonthlyWithdrawal : Withdrawals,
             withdrawalGrowthPercent : WithdrawalGrowths,
             ongoingMonthlySIP : OngoingSIPs, sipStepUpPercent : StepUps,
             expectedReturnPercent : DistReturns, maxYears : 0..MaxDistYears] :
        (p.ongoingMonthlySIP = 0) = (p.sipStepUpPercent = 0) }

DefaultAcc ==
    [initialLumpSum |-> 0, baseMonthlySIP |-> 0, annualStepUpPercent |-> 0,
     expectedReturnPercent |-> 12, durationYears |-> 0,
     inflationRatePercent |-> 6]

DefaultDist ==
    [initialMonthlyWithdrawal |-> 0, withdrawalGrowthPercent |-> 0,
     ongoingMonthlySIP |-> 0, sipStepUpPercent |-> 0,
     expectedReturnPercent |-> 8, maxYears |-> 0]

EventKinds ==
    { [amount |-> 300, type |-> "addition"],
      [amount |-> 1200, type |-> "withdrawal"] }

\* every list of at most MaxEvents events with years in ys; the label of an
\* event is its position in the list
EventLists(ys) ==
    UNION { { [i \in 1..n |->
                [year |-> f[i][1], amount |-> f[i][2].amount,
                 type |-> f[i][2].type, label |-> i]]
              : f \in [1..n -> ys \X EventKinds] }
            : n \in 0..MaxEvents }

-----------------------------------------------------------------------------
(* The state of the functions that are not running *)

IdleGoal ==
    /\ goalIn = [called |-> FALSE]
    /\ low = 0
    /\ high = 0
    /\ requiredSIP = 0
    /\ iter = 0
    /\ goalRet = [returned |-> FALSE]

IdleMc ==
    /\ mcIn = [called |-> FALSE]
    /\ results = <<>>
    /\ mcRet = [returned |-> FALSE]

IdleFull ==
    /\ fullIn = [called |-> FALSE]
    /\ accumulation = [returned |-> FALSE]
    /\ fullRet = [returned |-> FALSE]

IdleFn ==
    /\ fnIn = [called |-> FALSE]
    /\ fnOut = [returned |-> FALSE]

-----------------------------------------------------------------------------
(* calculateAccumulationPhase *)

InitAcc ==
    /\ call = "accumulation"
    /\ accParams \in AccParamSet
    /\ distParams = DefaultDist
    /\ lifeEvents \in EventLists(1..MaxAccYears)
    /\ startingCorpus = 0
    /\ accumulationYears = 0
    /\ pc = "accYear"
    /\ year = 1
    /\ month = 1
    /\ yearEvents = <<>>
    /\ balance = accParams.initialLumpSum
    /\ currentSIP = accParams.baseMonthlySIP
    /\ currentWithdrawal = 0
    /\ totalInvested = accParams.initialLumpSum
    /\ totalWithdrawn = 0
    /\ survivalMonths = 0
    /\ yr = YearLocals(0)
    /\ yearlyData = <<>>
    /\ ret = [returned |-> FALSE]
    /\ IdleGoal
    /\ IdleMc
    /\ IdleFull
    /\ IdleFn

\* top of the year loop: the locals and the filter of this year's events
AccYearStart ==
    /\ pc = "accYear"
    /\ year <= accParams.durationYears
    /\ yr' = YearLocals(balance)
    /\ yearEvents' = FilterYear(lifeEvents, year)
    /\ month' = 1
    /\ pc' = IF FilterYear(lifeEvents, year) = <<>> THEN "accMonths" ELSE "accEvents"
    /\ UNCHANGED <<goalVars, mcVars, fullVars, fnVars, inputs, year, balance, currentSIP, currentWithdrawal,
                   totalInvested, totalWithdrawn, survivalMonths, yearlyData, ret>>

\* one call of the forEach callback
AccApplyEvent ==
    /\ pc = "accEvents"
    /\ LET e == Head(yearEvents) IN
        /\ balance' = EventBalance(balance, e)
        /\ totalInvested' = EventInvested(totalInvested, e)
        /\ yr' = AfterEvent(yr, e)
    /\ yearEvents' = Tail(yearEvents)
    /\ pc' = IF Tail(yearEvents) = <<>> THEN "accMonths" ELSE "accEvents"
    /\ UNCHANGED <<goalVars, mcVars, fullVars, fnVars, inputs, year, month, currentSIP, currentWithdrawal,
                   totalWithdrawn, survivalMonths, yearlyData, ret>>

\* one iteration of the month loop
AccMonth ==
    /\ pc = "accMonths"
    /\ LET interestThisMonth == Interest(balance, accParams.expectedReturnPercent) IN
        /\ balance' = balance + interestThisMonth + currentSIP
        /\ yr' = [yr EXCEPT !.yearlyInterest = @ + interestThisMonth,
                            !.yearlyContribution = @ + currentSIP]
    /\ month' = month + 1
    /\ pc' = IF month + 1 <= MonthsPerYear THEN "accMonths" ELSE "accClose"
    /\ UNCHANGED <<goalVars, mcVars, fullVars, fnVars, inputs, year, yearEvents, currentSIP, currentWithdrawal,
                   totalInvested, totalWithdrawn, survivalMonths, yearlyData, ret>>

AccRecord ==
    [year |-> year, phase |-> "accumulation",
     openingBalance |-> yr.openingBalance,
     contribution |-> yr.yearlyContribution,
     interestEarned |-> yr.yearlyInterest,
     withdrawal |-> 0,
     closingBalance |-> balance,
     totalInvested |-> totalInvested + yr.yearlyContribution,
     sipAmount |-> currentSIP,
     lifeEvent |-> LifeEventOf(yr)]

\* the rest of the year-loop body: the push and the step-up
AccCloseYear ==
    /\ pc = "accClose"
    /\ totalInvested' = totalInvested + yr.yearlyContribution
    /\ yearlyData' = Append(yearlyData, AccRecord)
    /\ currentSIP' = GrowBy(currentSIP, accParams.annualStepUpPercent)
    /\ year' = year + 1
    /\ pc' = "accYear"
    /\ UNCHANGED <<goalVars, mcVars, fullVars, fnVars, inputs, month, yearEvents, balance, currentWithdrawal,
                   totalWithdrawn, survivalMonths, yr, ret>>

\* faulty variant: the corpus is deflated by one year more than the duration
DeflatedOneMore(x, pct, n) == (x * 100) \div (100 + pct)

RECURSIVE Deflated(_, _, _)
\* x / Math.pow(1 + inflationRate, n), one year's factor at a time
Deflated(x, pct, n) ==
    IF n <= 0 THEN x ELSE Deflated((x * 100) \div (100 + pct), pct, n - 1)

AccSummary ==
    [totalInvested |-> totalInvested, finalCorpus |-> balance,
     totalGains |-> balance - totalInvested,
     inflationAdjustedCorpus |->
         Deflated(balance, accParams.inflationRatePercent, accParams.durationYears),
     wealthMultiplier |-> IF totalInvested > 0
                          THEN [num |-> balance, den |-> totalInvested]
                          ELSE [num |-> 0, den |-> 1],
     durationYears |-> accParams.durationYears]

AccReturn ==
    /\ pc = "accYear"
    /\ year > accParams.durationYears
    /\ ret' = [returned |-> TRUE, yearlyData |-> yearlyData, summary |-> AccSummary]
    /\ pc' = "done"
    /\ UNCHANGED <<goalVars, mcVars, fullVars, fnVars, inputs, year, month, yearEvents, balance, currentSIP,
                   currentWithdrawal, totalInvested, totalWithdrawn,
                   survivalMonths, yr, yearlyData>>

NextAcc == AccYearStart \/ AccApplyEvent \/ AccMonth \/ AccCloseYear \/ AccReturn

-----------------------------------------------------------------------------
(* calculateDistributionPhase *)

InitDist ==
    /\ call = "distribution"
    /\ accParams = DefaultAcc
    /\ distParams \in DistParamSet
    /\ startingCorpus \in Corpora
    /\ accumulationYears \in {0, MaxAccYears}
    /\ lifeEvents \in EventLists((accumulationYears + 1)..(accumulationYears + MaxDistYears))
    \* a call the guard turns away is drawn with one horizon and one return
    /\ (startingCorpus <= 0 \/ distParams.initialMonthlyWithdrawal <= 0)
           => (distParams.maxYears = MaxDistYears /\ distParams.expectedReturnPercent = 0)
    /\ pc = "distGuard"
    /\ year = 1
    /\ month = 1
    /\ yearEvents = <<>>
    /\ balance = 0
    /\ currentSIP = 0
    /\ currentWithdrawal = 0
    /\ totalInvested = 0
    /\ totalWithdrawn = 0
    /\ survivalMonths = 0
    /\ yr = YearLocals(0)
    /\ yearlyData = <<>>
    /\ ret = [returned |-> FALSE]
    /\ IdleGoal
    /\ IdleMc
    /\ IdleFull
    /\ IdleFn

\* faulty variant: a corpus of exactly zero passes the guard
GuardFailsStrict(corpus, withdrawal) == corpus < 0 \/ withdrawal <= 0

GuardFails(corpus, withdrawal) == corpus <= 0 \/ withdrawal <= 0

\* the early return
DistGuardReturn ==
    /\ pc = "distGuard"
    /\ GuardFails(startingCorpus, distParams.initialMonthlyWithdrawal)
    /\ ret' = [returned |-> TRUE, yearlyData |-> <<>>,
               survivalPeriod |-> [years |-> 0, months |-> 0, isForever |-> FALSE]]
    /\ pc' = "done"
    /\ UNCHANGED <<goalVars, mcVars, fullVars, fnVars, inputs, year, month, yearEvents, balance, currentSIP,
                   currentWithdrawal, totalInvested, totalWithdrawn,
                   survivalMonths, yr, yearlyData>>

\* the declarations between the guard and the year loop
DistBegin ==
    /\ pc = "distGuard"
    /\ ~GuardFails(startingCorpus, distParams.initialMonthlyWithdrawal)
    /\ balance' = startingCorpus
    /\ currentWithdrawal' = distParams.initialMonthlyWithdrawal
    /\ currentSIP' = distParams.ongoingMonthlySIP
    /\ totalWithdrawn' = 0
    /\ totalInvested' = 0
    /\ survivalMonths' = 0
    /\ yearlyData' = <<>>
    /\ year' = 1
    /\ pc' = "distYear"
    /\ UNCHANGED <<goalVars, mcVars, fullVars, fnVars, inputs, month, yearEvents, yr, ret>>

\* top of the year loop: the locals and the filter of this year's events
DistYearStart ==
    /\ pc = "distYear"
    /\ year <= distParams.maxYears
    /\ yr' = YearLocals(balance)
    /\ yearEvents' = FilterYear(lifeEvents, accumulationYears + year)
    /\ month' = 1
    /\ pc' = IF FilterYear(lifeEvents, accumulationYears + year) = <<>>
             THEN "distMonths" ELSE "distEvents"
    /\ UNCHANGED <<goalVars, mcVars, fullVars, fnVars, inputs, year, balance, currentSIP, currentWithdrawal,
                   totalInvested, totalWithdrawn, survivalMonths, yearlyData, ret>>

\* one call of the forEach callback
DistApplyEvent ==
    /\ pc = "distEvents"
    /\ LET e == Head(yearEvents) IN
        /\ balance' = EventBalance(balance, e)
        /\ totalInvested' = EventInvested(totalInvested, e)
        /\ yr' = AfterEvent(yr, e)
    /\ yearEvents' = Tail(yearEvents)
    /\ pc' = IF Tail(yearEvents) = <<>> THEN "distMonths" ELSE "distEvents"
    /\ UNCHANGED <<goalVars, mcVars, fullVars, fnVars, inputs, year, month, currentSIP, currentWithdrawal,
                   totalWithdrawn, survivalMonths, yearlyData, ret>>

\* the break at the top of the month loop
DistMonthBreak ==
    /\ pc = "distMonths"
    /\ balance <= 0
    /\ pc' = "distClose"
    /\ UNCHANGED <<goalVars, mcVars, fullVars, fnVars, inputs, year, month, yearEvents, balance, currentSIP,
                   currentWithdrawal, totalInvested, totalWithdrawn,
                   survivalMonths, yr, yearlyData, ret>>

\* faulty variant: the withdrawal is recorded in full whatever the balance
WithdrawalPaidInFull(w, b) == w

\* Math.min(currentWithdrawal, balance)
WithdrawalPaid(w, b) == Min(w, b)

\* the clamp of the balance after a month's withdrawal
AfterWithdrawal(b) == IF b <= 0 THEN 0 ELSE b

\* one iteration of the month loop
DistMonth ==
    /\ pc = "distMonths"
    /\ balance > 0
    /\ LET interestThisMonth == Interest(balance, distParams.expectedReturnPercent)
           funded == balance + interestThisMonth + currentSIP
           withdrawalAmount == WithdrawalPaid(currentWithdrawal, funded)
           left == funded - withdrawalAmount
       IN
        /\ balance' = AfterWithdrawal(left)
        /\ yr' = [yr EXCEPT !.yearlyInterest = @ + interestThisMonth,
                            !.yearlyContribution = @ + currentSIP,
                            !.yearlyWithdrawal = @ + withdrawalAmount,
                            !.monthsThisYear = @ + 1]
        /\ pc' = IF left <= 0 \/ month + 1 > MonthsPerYear
                 THEN "distClose" ELSE "distMonths"
    /\ survivalMonths' = survivalMonths + 1
    /\ month' = month + 1
    /\ UNCHANGED <<goalVars, mcVars, fullVars, fnVars, inputs, year, yearEvents, currentSIP, currentWithdrawal,
                   totalInvested, totalWithdrawn, yearlyData, ret>>

DistRecord ==
    [year |-> accumulationYears + year, phase |-> "distribution",
     openingBalance |-> yr.openingBalance,
     contribution |-> yr.yearlyContribution,
     interestEarned |-> yr.yearlyInterest,
     withdrawal |-> yr.yearlyWithdrawal,
     closingBalance |-> balance,
     totalInvested |-> totalInvested + yr.yearlyContribution,
     withdrawalAmount |-> currentWithdrawal,
     lifeEvent |-> LifeEventOf(yr)]

\* faulty variant: the year loop does not break on a depleted balance
SolventAlways(b) == TRUE

\* whether the year loop goes on after the push
Solvent(b) == b > 0

\* the rest of the year-loop body: the totals, the push, the break, the growth
DistCloseYear ==
    /\ pc = "distClose"
    /\ totalWithdrawn' = totalWithdrawn + yr.yearlyWithdrawal
    /\ totalInvested' = totalInvested + yr.yearlyContribution
    /\ yearlyData' = Append(yearlyData, DistRecord)
    /\ IF Solvent(balance)
       THEN /\ currentWithdrawal' = GrowBy(currentWithdrawal, distParams.withdrawalGrowthPercent)
            /\ currentSIP' = GrowBy(currentSIP, distParams.sipStepUpPercent)
            /\ year' = year + 1
            /\ pc' = "distYear"
       ELSE /\ UNCHANGED <<currentWithdrawal, currentSIP, year>>
            /\ pc' = "distReturn"
    /\ UNCHANGED <<goalVars, mcVars, fullVars, fnVars, inputs, month, yearEvents, balance, survivalMonths, yr, ret>>

\* the year loop ends because year > maxYears
DistLoopEnd ==
    /\ pc = "distYear"
    /\ year > distParams.maxYears
    /\ pc' = "distReturn"
    /\ UNCHANGED <<goalVars, mcVars, fullVars, fnVars, inputs, year, month, yearEvents, balance, currentSIP,
                   currentWithdrawal, totalInvested, totalWithdrawn,
                   survivalMonths, yr, yearlyData, ret>>

\* faulty variant: the horizon test is strict
IsForeverStrict(b, months, maxYears) == b > 0 /\ months > maxYears * MonthsPerYear

IsForever(b, months, maxYears) == b > 0 /\ months >= maxYears * MonthsPerYear

\* faulty variant: a started year counts as a whole year
SurvivalYearsRoundedUp(months) == (months + MonthsPerYear - 1) \div MonthsPerYear

\* Math.floor(survivalMonths / 12)
SurvivalYears(months) == months \div MonthsPerYear

\* the code after the year loop
DistReturn ==
    /\ pc = "distReturn"
    /\ ret' = [returned |-> TRUE, yearlyData |-> yearlyData,
               survivalPeriod |->
                   [years |-> SurvivalYears(survivalMonths),
                    months |-> survivalMonths % MonthsPerYear,
                    totalMonths |-> survivalMonths,
                    isForever |-> IsForever(balance, survivalMonths, distParams.maxYears)],
               summary |-> [totalWithdrawn |-> totalWithdrawn,
                            totalContributed |-> totalInvested,
                            finalBalance |-> balance]]
    /\ pc' = "done"
    /\ UNCHANGED <<goalVars, mcVars, fullVars, fnVars, inputs, year, month, yearEvents, balance, currentSIP,
                   currentWithdrawal, totalInvested, totalWithdrawn,
                   survivalMonths, yr, yearlyData>>

NextDist ==
    \/ DistGuardReturn \/ DistBegin \/ DistYearStart \/ DistApplyEvent
    \/ DistMonthBreak \/ DistMonth \/ DistCloseYear \/ DistLoopEnd \/ DistReturn

-----------------------------------------------------------------------------
(* The deterministic engines: a call of either exported function *)

Init == InitAcc \/ InitDist

Next == NextAcc \/ NextDist

Spec == Init /\ [][Next]_vars

-----------------------------------------------------------------------------
(* Properties of the deterministic engines *)

LastRecord == yearlyData[Len(yearlyData)]

\* the events of absolute year y, in list order
EventsInYear(y) == SelectSeq(lifeEvents, LAMBDA e : e.year = y)

HasWithdrawalIn(y) ==
    \E i \in 1..Len(lifeEvents) :
        lifeEvents[i].year = y /\ lifeEvents[i].type = "withdrawal"

\* C1: every year record pushed by either engine has closingBalance >= 0,
\* whatever the life events, a withdrawal event larger than the balance
\* included.
C1_ClosingNonNegative ==
    \A i \in 1..Len(yearlyData) : yearlyData[i].closingBalance >= 0

\* C1 witness: a distribution record of a year whose withdrawal events
\* exceeded the opening balance.
C1_Witness ==
    \E i \in 1..Len(yearlyData) :
        /\ yearlyData[i].phase = "distribution"
        /\ yearlyData[i].lifeEvent.type = "withdrawal"
        /\ yearlyData[i].openingBalance + yearlyData[i].lifeEvent.amount < 0
        /\ yearlyData[i].closingBalance = 0

\* the distribution run is past the guard and holds no money
DistAtZero ==
    /\ call = "distribution"
    /\ pc \in {"distEvents", "distMonths", "distClose", "distReturn"}
    /\ balance = 0

\* C2 as stated: once the balance of a distribution run is 0, by a monthly
\* step or by a withdrawal life event, it stays 0, no month is counted, no
\* further year starts and no later addition event is applied.
C2_DepletionTerminal_Original ==
    [][DistAtZero =>
          /\ balance' = 0
          /\ survivalMonths' = survivalMonths
          /\ pc' # "distYear"]_vars

\* the balance is 0 and this year's life events have all been applied
DepletedAfterEvents ==
    /\ call = "distribution"
    /\ pc \in {"distMonths", "distClose", "distReturn"}
    /\ balance = 0

DepletedStep ==
    DepletedAfterEvents =>
        /\ balance' = 0
        /\ survivalMonths' = survivalMonths
        /\ year' = year
        /\ yearEvents' = <<>>
        /\ yr' = yr
        /\ pc' \in {"distClose", "distReturn", "done"}
        /\ IF pc = "distClose"
           THEN /\ Len(yearlyData') = Len(yearlyData) + 1
                /\ yearlyData'[Len(yearlyData')].closingBalance = 0
                /\ pc' = "distReturn"
           ELSE yearlyData' = yearlyData

OnlyLastRecordZero ==
    call = "distribution" =>
        \A i \in 1..(Len(yearlyData) - 1) : yearlyData[i].closingBalance > 0

\* C2 amended: once the balance of a distribution run is 0 after the year's
\* life events were applied (at the month loop, by a monthly step or by the
\* events), the year's record is pushed with closingBalance 0, no later year
\* is simulated, survivalMonths stops and no later event is applied; only
\* the last record of a run can have closingBalance 0.
C2_DepletionTerminal ==
    /\ []OnlyLastRecordZero
    /\ [][DepletedStep]_vars

\* C2 witness: a finished run that depleted while an addition event of a
\* later year inside the horizon was still waiting.
C2_Witness ==
    /\ call = "distribution"
    /\ pc = "done"
    /\ Len(yearlyData) >= 1
    /\ LastRecord.closingBalance = 0
    /\ \E i \in 1..Len(lifeEvents) :
          /\ lifeEvents[i].type = "addition"
          /\ lifeEvents[i].year > LastRecord.year
          /\ lifeEvents[i].year <= accumulationYears + distParams.maxYears

MonthDelta(field) == yr'[field] - yr[field]

ConservationStep ==
    /\ pc = "accMonths" =>
          /\ MonthDelta("yearlyInterest") = Interest(balance, accParams.expectedReturnPercent)
          /\ MonthDelta("yearlyContribution") = currentSIP
          /\ balance' = balance + MonthDelta("yearlyInterest")
                                + MonthDelta("yearlyContribution")
    /\ (pc = "distMonths" /\ balance > 0) =>
          /\ MonthDelta("yearlyInterest") = Interest(balance, distParams.expectedReturnPercent)
          /\ MonthDelta("yearlyContribution") = currentSIP
          /\ MonthDelta("yearlyWithdrawal") <= currentWithdrawal
          /\ balance' = balance + MonthDelta("yearlyInterest")
                                + MonthDelta("yearlyContribution")
                                - MonthDelta("yearlyWithdrawal")

RecordIdentity ==
    \A i \in 1..Len(yearlyData) :
        LET r == yearlyData[i] IN
        EventsInYear(r.year) = <<>> =>
            r.closingBalance = r.openingBalance + r.interestEarned
                               + r.contribution - r.withdrawal

RECURSIVE FoldEvents(_, _)
\* the balance after the events es, applied in order to balance b
FoldEvents(b, es) ==
    IF es = <<>> THEN b
    ELSE FoldEvents(IF Head(es).type = "addition"
                    THEN b + Head(es).amount
                    ELSE b - Min(Head(es).amount, b),
                    Tail(es))

AbsoluteYear == IF call = "accumulation" THEN year ELSE accumulationYears + year

\* C4: while the events of a year are applied and when its month loop
\* starts, the balance is the opening balance with the year's events applied
\* in list order so far (an addition adds its amount, a withdrawal takes
\* min(amount, balance)), no interest or contribution of the year has
\* accrued, and the month loop starts with no event of the year left.
C4_EventApplication ==
    (pc \in {"accEvents", "distEvents"} \/ (pc \in {"accMonths", "distMonths"} /\ month = 1)) =>
        LET all == EventsInYear(AbsoluteYear)
            done == Len(all) - Len(yearEvents)
        IN  /\ done >= 0
            /\ yearEvents = SubSeq(all, done + 1, Len(all))
            /\ balance = FoldEvents(yr.openingBalance, SubSeq(all, 1, done))
            /\ yr.yearlyInterest = 0
            /\ yr.yearlyContribution = 0
            /\ (pc \in {"accMonths", "distMonths"} => yearEvents = <<>>)

\* C4 witness: the month loop of an accumulation year starts after a
\* withdrawal larger than the opening balance and then an addition.
C4_Witness ==
    /\ pc = "accMonths"
    /\ month = 1
    /\ Len(EventsInYear(year)) = 2
    /\ EventsInYear(year)[1].type = "withdrawal"
    /\ EventsInYear(year)[1].amount > yr.openingBalance
    /\ yr.openingBalance > 0
    /\ EventsInYear(year)[2].type = "addition"
    /\ balance = EventsInYear(year)[2].amount

\* C5 as stated: the closing balances of an accumulation run never decrease
\* from one year to the next, whatever the life events.
C5_MonotonicCorpus_Original ==
    call = "accumulation" =>
        \A i \in 1..(Len(yearlyData) - 1) :
            yearlyData[i + 1].closingBalance >= yearlyData[i].closingBalance

\* C5 amended: the closing balance of year y+1 is >= that of year y
\* whenever no withdrawal life event falls in year y+1.
C5_MonotonicCorpus ==
    call = "accumulation" =>
        \A i \in 1..(Len(yearlyData) - 1) :
            ~HasWithdrawalIn(i + 1) =>
                yearlyData[i + 1].closingBalance >= yearlyData[i].closingBalance

\* C5 witness: two accumulation years with growth, a withdrawal event in the
\* first and none in the second.
C5_Witness ==
    /\ call = "accumulation"
    /\ Len(yearlyData) >= 2
    /\ HasWithdrawalIn(1)
    /\ ~HasWithdrawalIn(2)
    /\ accParams.expectedReturnPercent > 0
    /\ yearlyData[1].closingBalance > 0
    /\ yearlyData[2].closingBalance > yearlyData[1].closingBalance

\* C9: a distribution call with startingCorpus <= 0 or
\* initialMonthlyWithdrawal <= 0 applies no event and simulates no month,
\* and returns an empty yearlyData with 0 years, 0 months, isForever false.
C9_DistributionGuard ==
    (call = "distribution"
        /\ (startingCorpus <= 0 \/ distParams.initialMonthlyWithdrawal <= 0)) =>
        /\ pc \in {"distGuard", "done"}
        /\ yearlyData = <<>>
        /\ survivalMonths = 0
        /\ yr = YearLocals(0)
        /\ (pc = "done") = ret.returned
        /\ ret.returned =>
              /\ ret.yearlyData = <<>>
              /\ ret.survivalPeriod = [years |-> 0, months |-> 0, isForever |-> FALSE]

\* C9 witness: the guard returned for a corpus of exactly 0 with a positive
\* withdrawal and a life event in the first distribution year.
C9_Witness ==
    /\ call = "distribution"
    /\ pc = "done"
    /\ startingCorpus = 0
    /\ distParams.initialMonthlyWithdrawal > 0
    /\ EventsInYear(accumulationYears + 1) # <<>>

\* C10: for a run that passes the guard, isForever is true exactly when the
\* balance is still > 0 after all maxYears years; then there are maxYears
\* records and totalMonths = 12 * maxYears; otherwise the last record has
\* closingBalance 0.
C10_IsForever ==
    (call = "distribution" /\ pc = "done"
        /\ startingCorpus > 0 /\ distParams.initialMonthlyWithdrawal > 0) =>
        LET sp == ret.survivalPeriod IN
        /\ sp.isForever = (balance > 0 /\ Len(ret.yearlyData) = distParams.maxYears)
        /\ sp.isForever =>
              /\ Len(ret.yearlyData) = distParams.maxYears
              /\ sp.totalMonths = 12 * distParams.maxYears
              /\ \A i \in 1..Len(ret.yearlyData) : ret.yearlyData[i].closingBalance > 0
        /\ ~sp.isForever =>
              /\ Len(ret.yearlyData) >= 1
              /\ ret.yearlyData[Len(ret.yearlyData)].closingBalance = 0

\* C10 witness: a run that paid withdrawals through a horizon of at least
\* two years and returned isForever.
C10_Witness ==
    /\ call = "distribution"
    /\ pc = "done"
    /\ distParams.maxYears >= 2
    /\ ret.survivalPeriod.isForever
    /\ ret.survivalPeriod.totalMonths = 12 * distParams.maxYears
    /\ ret.summary.totalWithdrawn > 0
    /\ ret.summary.finalBalance < startingCorpus

\* C14: calculateAccumulationPhase with durationYears = 0 returns an empty
\* yearlyData, finalCorpus = totalInvested = inflationAdjustedCorpus =
\* initialLumpSum and totalGains = 0, whatever the lump sum, the inflation
\* rate and the life events.
C14_ZeroDuration ==
    (call = "accumulation" /\ pc = "done" /\ accParams.durationYears = 0) =>
        /\ ret.yearlyData = <<>>
        /\ ret.summary.finalCorpus = accParams.initialLumpSum
        /\ ret.summary.totalInvested = accParams.initialLumpSum
        /\ ret.summary.totalGains = 0
        /\ ret.summary.inflationAdjustedCorpus = accParams.initialLumpSum

\* C14 witness: a zero-duration call with a lump sum, inflation and two life
\* events, an addition among them, has returned.
C14_Witness ==
    /\ call = "accumulation"
    /\ pc = "done"
    /\ accParams.durationYears = 0
    /\ accParams.initialLumpSum > 0
    /\ accParams.inflationRatePercent > 0
    /\ Len(lifeEvents) >= 2
    /\ \E i \in DOMAIN lifeEvents : lifeEvents[i].type = "addition"
    /\ ret.returned

-----------------------------------------------------------------------------
(* calculateFutureValue and calculateRequiredSIP *)

\* The goal solver rounds to whole rupees and compares with a tolerance in
\* rupees: its amounts are counted in units of 1 / Scale rupee.
ScaleBits == 3
Scale == 2 ^ ScaleBits

MaxGoalYears == 9

\* the Infinity sentinel of targetCorpus and requiredSIP
Infinity == -1

Tolerance == 100
MaxIterations == 100

Abs(x) == IF x < 0 THEN 0 - x ELSE x

\* Math.ceil of an amount
Ceil(x) == ((x + Scale - 1) \div Scale) * Scale

\* balance * (1 + monthlyRate)
Compound(b, pct) == b + Interest(b, pct)

RECURSIVE FutureValueMonths(_, _, _, _)
\* the month loop of calculateFutureValue, m iterations (the test on next
\* only has the value computed before the following iteration)
FutureValueMonths(b, sip, pct, m) ==
    IF m = 0 THEN b
    ELSE LET next == Compound(b, pct) + sip
         IN  IF next \in Int
             THEN FutureValueMonths(next, sip, pct, m - 1)
             ELSE next

RECURSIVE calculateFutureValue(_, _, _, _, _)
calculateFutureValue(lumpSum, monthlySIP, stepUpPercent, expectedReturnPercent, years) ==
    IF years <= 0 THEN lumpSum
    ELSE LET b == FutureValueMonths(lumpSum, monthlySIP, expectedReturnPercent,
                                    MonthsPerYear)
             sip == GrowBy(monthlySIP, stepUpPercent)
         IN  IF b \in Int /\ sip \in Int
             THEN calculateFutureValue(b, sip, stepUpPercent,
                                       expectedReturnPercent, years - 1)
             ELSE b

GoalLumpSums == {0, 100 * Scale}
GoalTargets == {54 * Scale, 1200 * Scale, 5000 * Scale, Infinity}
GoalReturns == {0, 12}

GoalInputSet ==
    [currentLumpSum : GoalLumpSums, targetCorpus : GoalTargets,
     expectedReturnPercent : GoalReturns, stepUpPercent : StepUps,
     yearsToRetirement : 0..MaxGoalYears]

IdleEngines ==
    /\ accParams = DefaultAcc
    /\ distParams = DefaultDist
    /\ lifeEvents = <<>>
    /\ startingCorpus = 0
    /\ accumulationYears = 0
    /\ year = 1
    /\ month = 1
    /\ yearEvents = <<>>
    /\ balance = 0
    /\ currentSIP = 0
    /\ currentWithdrawal = 0
    /\ totalInvested = 0
    /\ totalWithdrawn = 0
    /\ survivalMonths = 0
    /\ yr = YearLocals(0)
    /\ yearlyData = <<>>
    /\ ret = [returned |-> FALSE]

InitGoal ==
    /\ call = "requiredSIP"
    /\ pc = "goalStart"
    /\ goalIn \in GoalInputSet
    /\ low = 0
    /\ high = 0
    /\ requiredSIP = 0
    /\ iter = 0
    /\ goalRet = [returned |-> FALSE]
    /\ IdleEngines
    /\ IdleMc
    /\ IdleFull
    /\ IdleFn

\* what the lump sum alone grows to
LumpSumFV ==
    calculateFutureValue(goalIn.currentLumpSum, 0, 0,
                         goalIn.expectedReturnPercent, goalIn.yearsToRetirement)

\* the projection of a contribution with the inputs of the call
Projected(sip) ==
    calculateFutureValue(goalIn.currentLumpSum, sip, goalIn.stepUpPercent,
                         goalIn.expectedReturnPercent, goalIn.yearsToRetirement)

\* targetCorpus === Infinity
GoalInfinite ==
    /\ pc = "goalStart"
    /\ goalIn.targetCorpus = Infinity
    /\ goalRet' = [returned |-> TRUE, requiredSIP |-> Infinity,
                   isAchievable |-> FALSE,
                   message |-> "Real rate is zero or negative. Perpetual income not possible."]
    /\ pc' = "done"
    /\ UNCHANGED <<call, engineVars, mcVars, fullVars, fnVars, goalIn, low, high, requiredSIP, iter>>

\* lumpSumFV >= targetCorpus
GoalLumpSumEnough ==
    /\ pc = "goalStart"
    /\ goalIn.targetCorpus # Infinity
    /\ LumpSumFV >= goalIn.targetCorpus
    /\ goalRet' = [returned |-> TRUE, requiredSIP |-> 0, isAchievable |-> TRUE,
                   surplus |-> LumpSumFV - goalIn.targetCorpus,
                   message |-> "Your current lump sum is sufficient! No additional SIP needed."]
    /\ pc' = "done"
    /\ UNCHANGED <<call, engineVars, mcVars, fullVars, fnVars, goalIn, low, high, requiredSIP, iter>>

\* the declarations before the bisection loop
GoalBisectBegin ==
    /\ pc = "goalStart"
    /\ goalIn.targetCorpus # Infinity
    /\ LumpSumFV < goalIn.targetCorpus
    /\ low' = 0
    /\ high' = goalIn.targetCorpus \div MonthsPerYear
    /\ requiredSIP' = 0
    /\ iter' = 0
    /\ pc' = "goalLoop"
    /\ UNCHANGED <<call, engineVars, mcVars, fullVars, fnVars, goalIn, goalRet>>

\* Math.abs(futureValue - targetCorpus) < tolerance
WithinTolerance(futureValue, target) == Abs(futureValue - target) < Tolerance * Scale

\* one iteration of the bisection loop
GoalIterate ==
    /\ pc = "goalLoop"
    /\ iter < MaxIterations
    /\ LET mid == (low + high) \div 2
           futureValue == Projected(mid)
       IN
        /\ requiredSIP' = mid
        /\ IF WithinTolerance(futureValue, goalIn.targetCorpus)
           THEN /\ UNCHANGED <<low, high, iter>>
                /\ pc' = "goalVerify"
           ELSE /\ low' = IF futureValue < goalIn.targetCorpus THEN mid ELSE low
                /\ high' = IF futureValue < goalIn.targetCorpus THEN high ELSE mid
                /\ iter' = iter + 1
                /\ pc' = IF iter + 1 < MaxIterations THEN "goalLoop" ELSE "goalVerify"
    /\ UNCHANGED <<call, engineVars, mcVars, fullVars, fnVars, goalIn, goalRet>>

\* the code after the loop
GoalReturn ==
    /\ pc = "goalVerify"
    /\ goalRet' = [returned |-> TRUE, requiredSIP |-> Ceil(requiredSIP),
                   isAchievable |-> TRUE,
                   projectedCorpus |-> Projected(requiredSIP),
                   gap |-> goalIn.targetCorpus - LumpSumFV,
                   lumpSumContribution |-> LumpSumFV,
                   message |-> "SIP calculated successfully"]
    /\ pc' = "done"
    /\ UNCHANGED <<call, engineVars, mcVars, fullVars, fnVars, goalIn, low, high, requiredSIP, iter>>

NextGoal ==
    GoalInfinite \/ GoalLumpSumEnough \/ GoalBisectBegin \/ GoalIterate \/ GoalReturn

SpecGoal == InitGoal /\ [][NextGoal]_vars

\* C6: whenever the target is finite and above what the lump sum alone grows
\* to, the requiredSIP that calculateRequiredSIP returns, projected through
\* calculateFutureValue with the same inputs, ends within 100 of targetCorpus.
C6_RoundTrip ==
    (call = "requiredSIP" /\ pc = "done"
        /\ goalIn.targetCorpus # Infinity
        /\ goalIn.targetCorpus > LumpSumFV) =>
        Abs(Projected(goalRet.requiredSIP) - goalIn.targetCorpus) <= Tolerance * Scale

-----------------------------------------------------------------------------
(* randomNormalReturn, runSingleSimulation and runMonteCarloSimulation *)

MaxSimulations == 3
MaxTargetYears == 2

\* the annual returns randomNormalReturn may hand back, in percent
DrawnReturns == {-60, 12}

McAccParamSet ==
    [initialLumpSum : {0, 2000}, baseMonthlySIP : {10},
     annualStepUpPercent : {10}, expectedReturnPercent : {12},
     durationYears : {1}]

McDistParamSet ==
    [initialMonthlyWithdrawal : {60}, withdrawalGrowthPercent : {10},
     ongoingMonthlySIP : {0}, sipStepUpPercent : {0},
     expectedReturnPercent : {8}]

McInputSet ==
    [accumulationParams : McAccParamSet, distributionParams : McDistParamSet,
     numSimulations : 1..MaxSimulations,
     targetSurvivalYears : 1..MaxTargetYears]

\* the return drawn used as it is, Math.max(0, annualReturn) left out
UnflooredReturn(annualReturn) == annualReturn

\* Math.max(0, annualReturn): the rate of an accumulation year
FlooredReturn(annualReturn) == Max(0, annualReturn)

RECURSIVE McAccumulation(_, _, _, _, _, _)
\* the accumulation loop of runSingleSimulation from year y on: the balance
\* and the snapshots pushed
McAccumulation(a, draws, y, b, sip, snaps) ==
    IF y > a.durationYears THEN [balance |-> b, yearlyBalances |-> snaps]
    ELSE LET annualReturn == draws[y]
             nb == FutureValueMonths(b, sip, FlooredReturn(annualReturn), MonthsPerYear)
             nsip == GrowBy(sip, a.annualStepUpPercent)
         IN  IF nb \in Int /\ nsip \in Int
             THEN McAccumulation(a, draws, y + 1, nb, nsip,
                     Append(snaps, [year |-> y, phase |-> "accumulation",
                                    balance |-> nb, annualReturn |-> annualReturn]))
             ELSE [balance |-> nb, yearlyBalances |-> snaps]

RECURSIVE McDistMonths(_, _, _, _, _)
\* the month loop of a distribution year, m iterations left: the balance and
\* whether the run is still marked survived
McDistMonths(b, sip, w, pct, m) ==
    IF m = 0 THEN [balance |-> b, survived |-> TRUE]
    ELSE IF b <= 0 THEN [balance |-> b, survived |-> FALSE]
    ELSE LET nb == Compound(b, pct) + sip - w
         IN  IF nb <= 0 THEN [balance |-> 0, survived |-> FALSE]
             ELSE McDistMonths(nb, sip, w, pct, m - 1)

\* survivalYears = y, which would count the failing year as completed
FailedSurvivalYearsInclusive(y) == y

\* survivalYears = year - 1 of a run that failed in distribution year y
FailedSurvivalYears(y) == y - 1

RECURSIVE McDistribution(_, _, _, _, _, _, _, _, _)
\* the distribution loop of runSingleSimulation from year y on
McDistribution(d, dur, target, draws, y, b, w, sip, run) ==
    IF y > target THEN [run EXCEPT !.finalBalance = b, !.survived = TRUE]
    ELSE LET annualReturn == draws[dur + y]
             after == McDistMonths(b, sip, w, annualReturn, MonthsPerYear)
             pushed == [run EXCEPT !.yearlyBalances =
                          Append(@, [year |-> dur + y, phase |-> "distribution",
                                     balance |-> Max(0, after.balance),
                                     annualReturn |-> annualReturn])]
         IN  IF ~after.survived
             THEN [pushed EXCEPT !.finalBalance = after.balance,
                                 !.survivalYears = FailedSurvivalYears(y),
                                 !.survived = FALSE]
             ELSE McDistribution(d, dur, target, draws, y + 1, after.balance,
                                 GrowBy(w, d.withdrawalGrowthPercent),
                                 GrowBy(sip, d.sipStepUpPercent),
                                 [pushed EXCEPT !.survivalYears = y])

\* runSingleSimulation with the draws of its years
runSingleSimulation(a, d, target, draws) ==
    LET acc == McAccumulation(a, draws, 1, a.initialLumpSum, a.baseMonthlySIP, <<>>)
        run == McDistribution(d, a.durationYears, target, draws, 1, acc.balance,
                              d.initialMonthlyWithdrawal, d.ongoingMonthlySIP,
                              [yearlyBalances |-> acc.yearlyBalances,
                               corpusAtRetirement |-> acc.balance,
                               finalBalance |-> acc.balance,
                               survivalYears |-> 0,
                               survived |-> TRUE,
                               targetYears |-> target])
    IN  [run EXCEPT !.survived = run.survived /\ run.finalBalance > 0]

\* q with v inserted after the elements that are <= v
InsertSorted(q, v) ==
    LET k == Cardinality({i \in 1..Len(q) : q[i] <= v})
    IN  SubSeq(q, 1, k) \o <<v>> \o SubSeq(q, k + 1, Len(q))

RECURSIVE SortAscending(_)
\* .sort((a, b) => a - b)
SortAscending(q) ==
    IF q = <<>> THEN <<>> ELSE InsertSorted(SortAscending(Tail(q)), Head(q))

\* r.yearlyBalances[yearIdx]?.balance || 0, yearIdx counted from 0
BalanceAt(r, yearIdx) ==
    IF yearIdx + 1 \in DOMAIN r.yearlyBalances
    THEN r.yearlyBalances[yearIdx + 1].balance
    ELSE 0

\* the order of a year's balances without the sort
BalancesAtYearUnsorted(rs, yearIdx) ==
    [i \in 1..Len(rs) |-> BalanceAt(rs[i], yearIdx)]

BalancesAtYear(rs, yearIdx) ==
    SortAscending([i \in 1..Len(rs) |-> BalanceAt(rs[i], yearIdx)])

\* the corpus values without the sort
CorpusValuesUnsorted(rs) == [i \in 1..Len(rs) |-> rs[i].corpusAtRetirement]

CorpusValues(rs) == SortAscending([i \in 1..Len(rs) |-> rs[i].corpusAtRetirement])

\* Math.floor(numSimulations * q), q given in hundredths
PercentileIndex(n, q) == (n * q) \div 100

\* sorted[index] || 0, index counted from 0
ValueOrZero(sorted, index) ==
    IF index + 1 \in DOMAIN sorted THEN sorted[index + 1] ELSE 0

PercentileEntry(rs, n, dur, yearIdx) ==
    LET balancesAtYear == BalancesAtYear(rs, yearIdx) IN
    [year |-> yearIdx + 1,
     phase |-> IF yearIdx + 1 <= dur THEN "accumulation" ELSE "distribution",
     p10 |-> ValueOrZero(balancesAtYear, PercentileIndex(n, 10)),
     p25 |-> ValueOrZero(balancesAtYear, PercentileIndex(n, 25)),
     p50 |-> ValueOrZero(balancesAtYear, PercentileIndex(n, 50)),
     p75 |-> ValueOrZero(balancesAtYear, PercentileIndex(n, 75)),
     p90 |-> ValueOrZero(balancesAtYear, PercentileIndex(n, 90)),
     min |-> ValueOrZero(balancesAtYear, 0),
     max |-> ValueOrZero(balancesAtYear, n - 1)]

RECURSIVE SumSurvival(_)
SumSurvival(q) == IF q = <<>> THEN 0 ELSE Head(q).survivalYears + SumSurvival(Tail(q))

\* Math.round(avgFailedSurvival * 10) / 10, counted in tenths of a year
AvgFailedSurvival(rs, target) ==
    LET failedRuns == SelectSeq(rs, LAMBDA r : ~r.survived) IN
    IF Len(failedRuns) > 0
    THEN (20 * SumSurvival(failedRuns) + Len(failedRuns)) \div (2 * Len(failedRuns))
    ELSE 10 * target

\* (successfulRuns / numSimulations) * 100, kept as an exact fraction
SuccessRate(successfulRuns, n) == [num |-> successfulRuns * 100, den |-> n]

\* the code of runMonteCarloSimulation after the loop of the runs
Aggregate(rs, in) ==
    LET n == in.numSimulations
        dur == in.accumulationParams.durationYears
        successfulRuns == Len(SelectSeq(rs, LAMBDA r : r.survived))
        totalYears == dur + in.targetSurvivalYears
        corpusValues == CorpusValues(rs)
    IN  [returned |-> TRUE,
         successRate |-> SuccessRate(successfulRuns, n),
         numSimulations |-> n,
         successfulRuns |-> successfulRuns,
         failedRuns |-> n - successfulRuns,
         targetSurvivalYears |-> in.targetSurvivalYears,
         avgFailedSurvival |-> AvgFailedSurvival(rs, in.targetSurvivalYears),
         percentileData |-> [y \in 1..totalYears |-> PercentileEntry(rs, n, dur, y - 1)],
         corpusStats |-> [p10 |-> corpusValues[PercentileIndex(n, 10) + 1],
                          p50 |-> corpusValues[PercentileIndex(n, 50) + 1],
                          p90 |-> corpusValues[PercentileIndex(n, 90) + 1]]]

InitMc ==
    /\ call = "monteCarlo"
    /\ pc = "mcRuns"
    /\ mcIn \in McInputSet
    /\ results = <<>>
    /\ mcRet = [returned |-> FALSE]
    /\ IdleEngines
    /\ IdleGoal
    /\ IdleFull
    /\ IdleFn

\* one iteration of the loop of the runs, with the draws of its years
McRun ==
    /\ pc = "mcRuns"
    /\ Len(results) < mcIn.numSimulations
    /\ \E draws \in [1..(mcIn.accumulationParams.durationYears
                          + mcIn.targetSurvivalYears) -> DrawnReturns] :
          results' = Append(results,
                            runSingleSimulation(mcIn.accumulationParams,
                                                mcIn.distributionParams,
                                                mcIn.targetSurvivalYears, draws))
    /\ UNCHANGED <<call, pc, engineVars, goalVars, fullVars, fnVars, mcIn, mcRet>>

McAggregate ==
    /\ pc = "mcRuns"
    /\ Len(results) >= mcIn.numSimulations
    /\ mcRet' = Aggregate(results, mcIn)
    /\ pc' = "done"
    /\ UNCHANGED <<call, engineVars, goalVars, fullVars, fnVars, mcIn, results>>

NextMc == McRun \/ McAggregate

SpecMc == InitMc /\ [][NextMc]_vars

\* C7: in the aggregate, every percentileData entry has min <= p10 <= p25 <=
\* p50 <= p75 <= p90 <= max, successRate lies in 0..100, and the successful
\* and the failed runs add up to numSimulations.
C7_MonteCarloBounds ==
    (call = "monteCarlo" /\ pc = "done") =>
        /\ \A y \in DOMAIN mcRet.percentileData :
              LET e == mcRet.percentileData[y] IN
              /\ e.min <= e.p10
              /\ e.p10 <= e.p25
              /\ e.p25 <= e.p50
              /\ e.p50 <= e.p75
              /\ e.p75 <= e.p90
              /\ e.p90 <= e.max
        /\ mcRet.successRate.den > 0
        /\ mcRet.successRate.num >= 0
        /\ mcRet.successRate.num <= 100 * mcRet.successRate.den
        /\ mcRet.successfulRuns = Cardinality({i \in DOMAIN results : results[i].survived})
        /\ mcRet.failedRuns = Cardinality({i \in DOMAIN results : ~results[i].survived})
        /\ mcRet.successfulRuns + mcRet.failedRuns = mcIn.numSimulations

\* C7 witness: an aggregate of three runs, the first the best of them, some
\* survived and some failed, with a year whose band is spread out.
C7_Witness ==
    /\ call = "monteCarlo"
    /\ pc = "done"
    /\ mcIn.numSimulations >= 3
    /\ mcRet.successfulRuns >= 1
    /\ mcRet.failedRuns >= 1
    /\ results[1].finalBalance > results[2].finalBalance
    /\ \E y \in DOMAIN mcRet.percentileData :
          mcRet.percentileData[y].min < mcRet.percentileData[y].p90

Permuted(q, f) == [i \in 1..Len(q) |-> q[f[i]]]

Bijections(n) == {f \in [1..n -> 1..n] : \A i, j \in 1..n : f[i] = f[j] => i = j}

\* C8: the aggregate is the same for the runs taken in any order.
C8_OrderIndependent ==
    (call = "monteCarlo" /\ pc = "done") =>
        \A f \in Bijections(Len(results)) :
            Aggregate(Permuted(results, f), mcIn) = mcRet

\* C8 witness: an aggregate of runs that differ, a failed one ahead of a
\* survivor with a larger corpus at retirement.
C8_Witness ==
    /\ call = "monteCarlo"
    /\ pc = "done"
    /\ Len(results) >= 2
    /\ ~results[1].survived
    /\ results[2].survived
    /\ results[1].corpusAtRetirement > results[2].corpusAtRetirement

-----------------------------------------------------------------------------
(* calculateFullSimulation *)

FullAccParamSet ==
    [initialLumpSum : LumpSums, baseMonthlySIP : {100},
     annualStepUpPercent : {10}, expectedReturnPercent : {12},
     durationYears : 0..MaxAccYears, inflationRatePercent : {6}]

FullDistParamSet ==
    [initialMonthlyWithdrawal : {50, 200, 400}, withdrawalGrowthPercent : {10},
     ongoingMonthlySIP : {0, 20}, sipStepUpPercent : {0, 10},
     expectedReturnPercent : {8, 12}, maxYears : 0..MaxDistYears]

\* the years an event of the full list may carry when the accumulation lasts
\* d years: before the first year, the boundary year, the first two years of
\* the distribution, and a year past the longest horizon
FullEventYears(d) == {0, d, d + 1, d + 2, d + MaxDistYears + 1}

InitFull ==
    /\ call = "fullSimulation"
    /\ pc = "fullStart"
    /\ accParams \in FullAccParamSet
    /\ distParams \in FullDistParamSet
    /\ fullIn \in { [called |-> TRUE, lifeEvents |-> es] : es \in EventLists(FullEventYears(accParams.durationYears)) }
    \* a call without a lump sum is drawn without life events
    /\ accParams.initialLumpSum = 0 => fullIn.lifeEvents = <<>>
    \* a step-up goes with an ongoing contribution; a call with an ongoing
    \* contribution, the lower return or the middle withdrawal is drawn
    \* without life events
    /\ distParams.sipStepUpPercent > 0 => distParams.ongoingMonthlySIP > 0
    /\ (\/ distParams.ongoingMonthlySIP > 0
        \/ distParams.expectedReturnPercent < 12
        \/ distParams.initialMonthlyWithdrawal = 200) =>
          fullIn.lifeEvents = <<>>
    /\ accumulation = [returned |-> FALSE]
    /\ fullRet = [returned |-> FALSE]
    /\ lifeEvents = <<>>
    /\ startingCorpus = 0
    /\ accumulationYears = 0
    /\ year = 1
    /\ month = 1
    /\ yearEvents = <<>>
    /\ balance = 0
    /\ currentSIP = 0
    /\ currentWithdrawal = 0
    /\ totalInvested = 0
    /\ totalWithdrawn = 0
    /\ survivalMonths = 0
    /\ yr = YearLocals(0)
    /\ yearlyData = <<>>
    /\ ret = [returned |-> FALSE]
    /\ IdleGoal
    /\ IdleMc
    /\ IdleFn

\* faulty variant: the boundary year is left out of the accumulation events
AccumulationEventsStrict(events, durationYears) ==
    SelectSeq(events, LAMBDA e : e.year < durationYears)

\* lifeEvents.filter(e => e.year <= accumulationParams.durationYears)
AccumulationEvents(events, durationYears) ==
    SelectSeq(events, LAMBDA e : e.year <= durationYears)

\* lifeEvents.filter(e => e.year > accumulationParams.durationYears)
DistributionEvents(events, durationYears) ==
    SelectSeq(events, LAMBDA e : e.year > durationYears)

\* the split of the events and the call of calculateAccumulationPhase
FullCallAccumulation ==
    /\ pc = "fullStart"
    /\ lifeEvents' = AccumulationEvents(fullIn.lifeEvents, accParams.durationYears)
    /\ balance' = accParams.initialLumpSum
    /\ totalInvested' = accParams.initialLumpSum
    /\ currentSIP' = accParams.baseMonthlySIP
    /\ yearlyData' = <<>>
    /\ year' = 1
    /\ pc' = "accYear"
    /\ UNCHANGED <<call, accParams, distParams, startingCorpus, accumulationYears,
                   month, yearEvents, currentWithdrawal, totalWithdrawn,
                   survivalMonths, yr, ret, goalVars, mcVars, fullVars, fnVars>>

\* faulty variant: the distribution starts from what was invested
StartingCorpusInvested(acc) == acc.summary.totalInvested

\* accumulation.summary.finalCorpus, the second argument of the call
StartingCorpusOf(acc) == acc.summary.finalCorpus

\* calculateAccumulationPhase has returned: the call of calculateDistributionPhase
FullCallDistribution ==
    /\ pc = "done"
    /\ fullIn.called
    /\ ~accumulation.returned
    /\ accumulation' = ret
    /\ ret' = [returned |-> FALSE]
    /\ lifeEvents' = DistributionEvents(fullIn.lifeEvents, accParams.durationYears)
    /\ startingCorpus' = StartingCorpusOf(ret)
    /\ accumulationYears' = accParams.durationYears
    /\ year' = 1
    /\ month' = 1
    /\ yearEvents' = <<>>
    /\ balance' = 0
    /\ currentSIP' = 0
    /\ currentWithdrawal' = 0
    /\ totalInvested' = 0
    /\ totalWithdrawn' = 0
    /\ survivalMonths' = 0
    /\ yr' = YearLocals(0)
    /\ yearlyData' = <<>>
    /\ pc' = "distGuard"
    /\ UNCHANGED <<call, accParams, distParams, goalVars, mcVars, fullIn, fullRet, fnVars>>

\* faulty variant: the distribution records are put first
CombinedDataReversed(acc, dist) == dist.yearlyData \o acc.yearlyData

\* [...accumulation.yearlyData, ...distribution.yearlyData]
CombinedData(acc, dist) == acc.yearlyData \o dist.yearlyData

\* the year-0 entry of chartData
ChartAnchor ==
    [year |-> 0, totalInvested |-> accParams.initialLumpSum,
     portfolioValue |-> accParams.initialLumpSum, phase |-> "accumulation",
     lifeEvent |-> Null]

\* the callback of combinedData.map
ChartPoint(row, acc) ==
    [year |-> row.year,
     totalInvested |-> IF row.phase = "accumulation" THEN row.totalInvested
                       ELSE acc.summary.totalInvested,
     portfolioValue |-> row.closingBalance,
     phase |-> row.phase,
     lifeEvent |-> row.lifeEvent]

ChartData(combined, acc) ==
    <<ChartAnchor>> \o [i \in 1..Len(combined) |-> ChartPoint(combined[i], acc)]

\* calculateDistributionPhase has returned: the rest of calculateFullSimulation
FullReturn ==
    /\ pc = "done"
    /\ fullIn.called
    /\ accumulation.returned
    /\ fullRet' = [returned |-> TRUE,
                   accumulation |-> accumulation,
                   distribution |-> ret,
                   combinedData |-> CombinedData(accumulation, ret),
                   chartData |-> ChartData(CombinedData(accumulation, ret), accumulation),
                   peakCorpus |-> accumulation.summary.finalCorpus,
                   peakYear |-> accParams.durationYears,
                   survivalPeriod |-> ret.survivalPeriod,
                   lifeEvents |-> fullIn.lifeEvents]
    /\ pc' = "fullDone"
    /\ UNCHANGED <<call, engineVars, goalVars, mcVars, fullIn, accumulation, fnVars>>

NextFull ==
    \/ FullCallAccumulation \/ NextAcc \/ FullCallDistribution \/ NextDist
    \/ FullReturn

SpecFull == InitFull /\ [][NextFull]_vars

-----------------------------------------------------------------------------
(* Properties of calculateFullSimulation *)

AccPositions == {"accYear", "accEvents", "accMonths", "accClose"}

DistPositions == {"distGuard", "distYear", "distEvents", "distMonths", "distClose",
                  "distReturn"}

\* the positions in the full list of the events that lifeEvents holds
LabelsOf(events) == {events[i].label : i \in DOMAIN events}

SignedAmount(e) ==
    IF e.type = "addition" THEN e.amount
    ELSE IF e.type = "withdrawal" THEN 0 - e.amount
    ELSE 0

RECURSIVE SumSigned(_)
SumSigned(es) == IF es = <<>> THEN 0 ELSE SignedAmount(Head(es)) + SumSigned(Tail(es))

\* additions minus withdrawals of the events of the full list dated year y
NetOfYear(y) == SumSigned(SelectSeq(fullIn.lifeEvents, LAMBDA e : e.year = y))

\* C11: calculateFullSimulation hands the accumulation exactly the events
\* with year <= durationYears and the distribution exactly those with year >
\* durationYears; an event is only ever applied in the year it is dated, in
\* its own phase, and the record of every simulated year carries the net
\* amount of all the events dated that year, each counted once; events dated
\* outside the simulated years are applied nowhere.
C11_EventSplit ==
    (call = "fullSimulation") =>
        /\ pc \in AccPositions =>
              LabelsOf(lifeEvents) =
                  {i \in DOMAIN fullIn.lifeEvents :
                       fullIn.lifeEvents[i].year <= accParams.durationYears}
        /\ pc \in DistPositions =>
              LabelsOf(lifeEvents) =
                  {i \in DOMAIN fullIn.lifeEvents :
                       fullIn.lifeEvents[i].year > accParams.durationYears}
        /\ pc = "accEvents" =>
              \A i \in DOMAIN yearEvents :
                  /\ yearEvents[i].year = year
                  /\ yearEvents[i].year >= 1
                  /\ yearEvents[i].year <= accParams.durationYears
        /\ pc = "distEvents" =>
              \A i \in DOMAIN yearEvents :
                  /\ yearEvents[i].year = accParams.durationYears + year
                  /\ yearEvents[i].year > accParams.durationYears
        /\ pc = "fullDone" =>
              /\ \A i \in DOMAIN fullRet.combinedData :
                    fullRet.combinedData[i].lifeEvent.amount
                        = NetOfYear(fullRet.combinedData[i].year)
              /\ fullRet.accumulation.summary.totalInvested
                    >= accParams.initialLumpSum

\* C11 witness: a finished simulation with an addition dated the boundary
\* year, shown in the last accumulation record, and an event dated a year of
\* the horizon that the depleted distribution never reached.
C11_Witness ==
    /\ call = "fullSimulation"
    /\ pc = "fullDone"
    /\ accParams.durationYears >= 1
    /\ \E i, j \in DOMAIN fullIn.lifeEvents :
          /\ fullIn.lifeEvents[i].year = accParams.durationYears
          /\ fullIn.lifeEvents[i].type = "addition"
          /\ fullIn.lifeEvents[j].year > Len(fullRet.combinedData)
          /\ fullIn.lifeEvents[j].year <= accParams.durationYears + distParams.maxYears
    /\ fullRet.combinedData[accParams.durationYears].lifeEvent.amount > 0
    /\ Len(fullRet.distribution.yearlyData) >= 1

\* C12: in combinedData the openingBalance of every record is the
\* closingBalance of the record before it, the boundary between the phases
\* included: the first distribution record has year durationYears + 1 and
\* opens with accumulation.summary.finalCorpus, which is also peakCorpus, and
\* peakYear is durationYears.
C12_Continuity ==
    (call = "fullSimulation" /\ pc = "fullDone") =>
        LET combined == fullRet.combinedData
            dist == fullRet.distribution.yearlyData
            finalCorpus == fullRet.accumulation.summary.finalCorpus
        IN  /\ \A i \in 1..(Len(combined) - 1) :
                  combined[i + 1].openingBalance = combined[i].closingBalance
            /\ dist # <<>> =>
                  /\ dist[1].year = accParams.durationYears + 1
                  /\ dist[1].openingBalance = finalCorpus
            /\ fullRet.peakCorpus = finalCorpus
            /\ fullRet.peakYear = accParams.durationYears
            /\ fullRet.accumulation.yearlyData # <<>> =>
                  finalCorpus = fullRet.accumulation.yearlyData[
                                    Len(fullRet.accumulation.yearlyData)].closingBalance

\* C12 witness: a finished simulation with accumulation years that earned
\* something and at least two distribution records.
C12_Witness ==
    /\ call = "fullSimulation"
    /\ pc = "fullDone"
    /\ Len(fullRet.accumulation.yearlyData) >= 1
    /\ Len(fullRet.distribution.yearlyData) >= 2
    /\ fullRet.peakCorpus > fullRet.accumulation.summary.totalInvested
    /\ fullRet.distribution.yearlyData[1].openingBalance = fullRet.peakCorpus

\* C13: combinedData holds the years 1, 2, ..., K in this order, every
\* accumulation record before every distribution record; chartData has K + 1
\* points: a year-0 point whose totalInvested and portfolioValue are
\* initialLumpSum, then one point per record of combinedData, in the same
\* order, whose portfolioValue is the record's closingBalance.
C13_Chronological ==
    (call = "fullSimulation" /\ pc = "fullDone") =>
        LET combined == fullRet.combinedData
            chart == fullRet.chartData
        IN  /\ \A i \in DOMAIN combined : combined[i].year = i
            /\ \A i, j \in DOMAIN combined :
                  (combined[i].phase = "accumulation"
                      /\ combined[j].phase = "distribution") => i < j
            /\ Len(chart) = Len(combined) + 1
            /\ chart[1].year = 0
            /\ chart[1].totalInvested = accParams.initialLumpSum
            /\ chart[1].portfolioValue = accParams.initialLumpSum
            /\ \A i \in DOMAIN combined :
                  /\ chart[i + 1].year = combined[i].year
                  /\ chart[i + 1].phase = combined[i].phase
                  /\ chart[i + 1].portfolioValue = combined[i].closingBalance

\* C13 witness: a finished simulation with records of both phases, three or
\* more in all.
C13_Witness ==
    /\ call = "fullSimulation"
    /\ pc = "fullDone"
    /\ Len(fullRet.combinedData) >= 3
    /\ fullRet.combinedData[1].phase = "accumulation"
    /\ fullRet.combinedData[Len(fullRet.combinedData)].phase = "distribution"
    /\ Len(fullRet.chartData) >= 4

-----------------------------------------------------------------------------
(* calculateTargetCorpus and findRetirementGoal, and calculateFullSimulation *)
(* run on the exportParams of the result.  Amounts are counted in units of  *)
(* 1 / Scale rupee, as in calculateRequiredSIP.                             *)

DefaultMaxYears == 50

PlanLumpSums == {0, 1000 * Scale}
PlanWithdrawals == {10 * Scale}
PlanReturns == {4, 6, 12}
PlanGrowths == {6}
PlanSustainYears == {2}

PlanInputSet ==
    [yearsToRetirement : 0..MaxAccYears, currentLumpSum : PlanLumpSums,
     monthlyWithdrawalToday : PlanWithdrawals,
     expectedReturnPercent : PlanReturns, inflationPercent : Inflations,
     withdrawalGrowthPercent : PlanGrowths, stepUpPercent : StepUps,
     sustainForever : BOOLEAN, sustainYears : PlanSustainYears]

\* (1 + nominalReturn) / (1 + withdrawalGrowth) - 1, kept as an exact fraction
RealRateFraction(returnPercent, growthPercent) ==
    [num |-> (100 + returnPercent) - (100 + growthPercent),
     den |-> 100 + growthPercent]

RECURSIVE Inflated(_, _, _)
\* x * Math.pow(1 + inflationRate, n), one year's factor at a time
Inflated(x, pct, n) == IF n <= 0 THEN x ELSE Inflated(GrowBy(x, pct), pct, n - 1)

RECURSIVE Discounted(_, _, _)
\* x * Math.pow(1 + realRate, -n), one year's factor at a time
Discounted(x, r, n) ==
    IF n <= 0 THEN x
    ELSE Discounted((x * r.den) \div (r.den + r.num), r, n - 1)

\* faulty variant: the real rate is compared with 1 instead of 0
PerpetuityImpossibleBelowOne(r) == r.num <= r.den

\* realRate <= 0
PerpetuityImpossible(r) == r.num <= 0

\* Math.abs(realRate) < 0.0001
NearZero(r) == Abs(r.num) * 10000 < r.den

calculateTargetCorpus(p) ==
    LET realRate == RealRateFraction(p.expectedReturnPercent, p.withdrawalGrowthPercent)
        withdrawalAtRetirement ==
            Inflated(p.monthlyWithdrawalToday, p.inflationPercent, p.yearsToRetirement)
        annualWithdrawal == withdrawalAtRetirement * MonthsPerYear
        targetCorpus ==
            IF p.sustainForever
            THEN IF PerpetuityImpossible(realRate) THEN Infinity
                 ELSE (annualWithdrawal * realRate.den) \div realRate.num
            ELSE IF NearZero(realRate) THEN annualWithdrawal * p.sustainYears
                 ELSE (Abs(annualWithdrawal
                             - Discounted(annualWithdrawal, realRate, p.sustainYears))
                          * realRate.den) \div Abs(realRate.num)
    IN  [targetCorpus |-> targetCorpus,
         realRate |-> realRate,
         withdrawalAtRetirement |-> withdrawalAtRetirement,
         annualWithdrawal |-> annualWithdrawal,
         withdrawalGrowthPercent |-> p.withdrawalGrowthPercent,
         sustainForever |-> p.sustainForever,
         sustainYears |-> p.sustainYears]

InitPlan ==
    /\ call = "findRetirementGoal"
    /\ pc = "planStart"
    /\ fnIn \in PlanInputSet
    /\ fnOut = [returned |-> FALSE]
    /\ IdleEngines
    /\ IdleGoal
    /\ IdleMc
    /\ IdleFull

\* steps 1 and 2 of findRetirementGoal up to the call of calculateRequiredSIP
PlanCallRequiredSIP ==
    /\ pc = "planStart"
    /\ fnOut' = [returned |-> FALSE, corpus |-> calculateTargetCorpus(fnIn)]
    /\ goalIn' = [currentLumpSum |-> fnIn.currentLumpSum,
                  targetCorpus |-> calculateTargetCorpus(fnIn).targetCorpus,
                  expectedReturnPercent |-> fnIn.expectedReturnPercent,
                  stepUpPercent |-> fnIn.stepUpPercent,
                  yearsToRetirement |-> fnIn.yearsToRetirement]
    /\ low' = 0
    /\ high' = 0
    /\ requiredSIP' = 0
    /\ iter' = 0
    /\ goalRet' = [returned |-> FALSE]
    /\ pc' = "goalStart"
    /\ UNCHANGED <<call, engineVars, mcVars, fullVars, fnIn>>

\* an amount grown by a percentage; Infinity stays Infinity
GrowAmount(a, pct) == IF a = Infinity THEN Infinity ELSE GrowBy(a, pct)

RECURSIVE TrajectoryFrom(_, _, _, _, _, _)
\* the year loop of findRetirementGoal from year y on: the entries pushed
TrajectoryFrom(p, target, y, currentBalance, requiredBalance, currentSIPAmount) ==
    IF y > p.yearsToRetirement THEN <<>>
    ELSE LET current == FutureValueMonths(currentBalance, 0, p.expectedReturnPercent,
                                          MonthsPerYear)
             required ==
                 IF currentSIPAmount = Infinity \/ requiredBalance = Infinity
                 THEN Infinity
                 ELSE FutureValueMonths(requiredBalance, currentSIPAmount,
                                        p.expectedReturnPercent, MonthsPerYear)
             nextSIP == GrowAmount(currentSIPAmount, p.stepUpPercent)
         IN  IF current \in Int /\ required \in Int /\ nextSIP \in Int
             THEN <<[year |-> y, current |-> current, required |-> required,
                     target |-> target]>>
                  \o TrajectoryFrom(p, target, y + 1, current, required, nextSIP)
             ELSE <<>>

\* step 3 of findRetirementGoal: trajectoryData
TrajectoryData(p, target, sip) ==
    <<[year |-> 0, current |-> p.currentLumpSum, required |-> p.currentLumpSum,
       target |-> target]>>
    \o TrajectoryFrom(p, target, 1, p.currentLumpSum, p.currentLumpSum, sip)

\* faulty variant: the contribution is exported as a yearly amount
ExportedSIPPerYear(sip) ==
    IF sip.requiredSIP = Infinity THEN Infinity ELSE sip.requiredSIP * MonthsPerYear

\* baseMonthlySIP: sipResult.requiredSIP
ExportedSIP(sip) == sip.requiredSIP

\* the exportParams of the result
ExportParams(p, corpus, sip) ==
    [accumulation |->
        [initialLumpSum |-> p.currentLumpSum,
         baseMonthlySIP |-> ExportedSIP(sip),
         annualStepUpPercent |-> p.stepUpPercent,
         expectedReturnPercent |-> p.expectedReturnPercent,
         durationYears |-> p.yearsToRetirement,
         inflationRatePercent |-> p.inflationPercent],
     distribution |->
        [initialMonthlyWithdrawal |-> corpus.withdrawalAtRetirement,
         withdrawalGrowthPercent |-> p.withdrawalGrowthPercent,
         expectedReturnPercent |-> p.expectedReturnPercent,
         ongoingMonthlySIP |-> 0,
         sipStepUpPercent |-> 0]]

\* calculateRequiredSIP has returned: step 3 and the return of findRetirementGoal
PlanReturn ==
    /\ call = "findRetirementGoal"
    /\ pc = "done"
    /\ ~fnOut.returned
    /\ fnOut' = [returned |-> TRUE,
                 inputs |-> fnIn,
                 corpus |-> fnOut.corpus,
                 sip |-> goalRet,
                 trajectoryData |->
                     TrajectoryData(fnIn, fnOut.corpus.targetCorpus, goalRet.requiredSIP),
                 exportParams |-> ExportParams(fnIn, fnOut.corpus, goalRet)]
    /\ pc' = "planDone"
    /\ UNCHANGED <<call, engineVars, goalVars, mcVars, fullVars, fnIn>>

\* calculateFullSimulation is called with the exported pair and no life
\* events; the distribution has the default maxYears.  A contribution of
\* Infinity is not simulated.
PlanExport ==
    /\ pc = "planDone"
    /\ fnOut.exportParams.accumulation.baseMonthlySIP # Infinity
    /\ accParams' = fnOut.exportParams.accumulation
    /\ distParams' = [initialMonthlyWithdrawal |->
                          fnOut.exportParams.distribution.initialMonthlyWithdrawal,
                      withdrawalGrowthPercent |->
                          fnOut.exportParams.distribution.withdrawalGrowthPercent,
                      ongoingMonthlySIP |-> 0, sipStepUpPercent |-> 0,
                      expectedReturnPercent |->
                          fnOut.exportParams.distribution.expectedReturnPercent,
                      maxYears |-> DefaultMaxYears]
    /\ fullIn' = [called |-> TRUE, lifeEvents |-> <<>>]
    /\ pc' = "fullStart"
    /\ UNCHANGED <<call, lifeEvents, startingCorpus, accumulationYears, year, month,
                   yearEvents, balance, currentSIP, currentWithdrawal, totalInvested,
                   totalWithdrawn, survivalMonths, yr, yearlyData, ret,
                   goalVars, mcVars, accumulation, fullRet, fnVars>>

\* calculateFullSimulation on a call without life events
NextFullNoEvents ==
    \/ FullCallAccumulation \/ AccYearStart \/ AccMonth \/ AccCloseYear \/ AccReturn
    \/ FullCallDistribution \/ DistGuardReturn \/ DistBegin \/ DistYearStart
    \/ DistMonth \/ DistCloseYear \/ DistLoopEnd \/ DistReturn \/ FullReturn

NextPlan ==
    PlanCallRequiredSIP \/ NextGoal \/ PlanReturn \/ PlanExport \/ NextFullNoEvents

SpecPlan == InitPlan /\ [][NextPlan]_vars

-----------------------------------------------------------------------------
(* Properties of the goal solver *)

\* C15: the targetCorpus handed to calculateRequiredSIP is Infinity exactly
\* when sustainForever is set and the return does not exceed the growth of
\* the spending (real rate <= 0); then calculateRequiredSIP returns
\* isAchievable false, requiredSIP Infinity and a message without entering
\* the bisection; in every other case the target is a finite amount.
C15_InfiniteTarget ==
    (call = "findRetirementGoal" /\ pc # "planStart") =>
        LET infinite == goalIn.targetCorpus = Infinity IN
        /\ infinite <=>
              (fnIn.sustainForever
                  /\ fnIn.expectedReturnPercent <= fnIn.withdrawalGrowthPercent)
        /\ ~infinite => goalIn.targetCorpus >= 0
        /\ infinite =>
              /\ pc \notin {"goalLoop", "goalVerify"}
              /\ iter = 0
              /\ low = 0
              /\ high = 0
              /\ goalRet.returned =>
                    /\ goalRet.isAchievable = FALSE
                    /\ goalRet.requiredSIP = Infinity
                    /\ goalRet.message # ""
        /\ (goalRet.returned /\ ~infinite) => goalRet.requiredSIP # Infinity

\* C15 witness: calculateRequiredSIP has returned for a perpetual goal whose
\* return equals the growth of the spending.
C15_Witness ==
    /\ call = "findRetirementGoal"
    /\ goalRet.returned
    /\ fnIn.sustainForever
    /\ fnIn.expectedReturnPercent = fnIn.withdrawalGrowthPercent
    /\ goalIn.targetCorpus = Infinity
    /\ goalRet.isAchievable = FALSE

\* the exported pair repeats the inputs and the results it was built from
ExportRepeatsResult ==
    LET e == fnOut.exportParams IN
    /\ e.accumulation.baseMonthlySIP = fnOut.sip.requiredSIP
    /\ e.accumulation.durationYears = fnIn.yearsToRetirement
    /\ e.accumulation.initialLumpSum = fnIn.currentLumpSum
    /\ e.distribution.initialMonthlyWithdrawal = fnOut.corpus.withdrawalAtRetirement

\* the simulation of the exported pair ends its accumulation on the last
\* 'required' value of the trajectory
SimulationMeetsTrajectory ==
    pc = "fullDone" =>
        fullRet.accumulation.summary.finalCorpus
            = fnOut.trajectoryData[Len(fnOut.trajectoryData)].required

-----------------------------------------------------------------------------
(* calculateRealRate *)

MaxRatePercent == 12

\* nominal rates: the usual ones and two that lose everything or more
NominalRates == (0 - MaxRatePercent)..MaxRatePercent \cup {-100, -200}

InflationRates == 0..MaxRatePercent

\* faulty variant: the inflation is subtracted instead of divided out
calculateRealRateBySubtraction(nominalRatePercent, inflationRatePercent) ==
    [num |-> nominalRatePercent - inflationRatePercent, den |-> 1]

\* ((1 + nominal) / (1 + inflation) - 1) * 100 as an exact fraction num / den
\* of percentage points, for inflationRatePercent > -100
calculateRealRate(nominalRatePercent, inflationRatePercent) ==
    [num |-> 100 * ((100 + nominalRatePercent) - (100 + inflationRatePercent)),
     den |-> 100 + inflationRatePercent]

InitRate ==
    /\ call = "calculateRealRate"
    /\ pc = "call"
    /\ fnIn \in [nominalRatePercent : NominalRates, inflationRatePercent : InflationRates]
    /\ fnOut = [returned |-> FALSE]
    /\ IdleEngines
    /\ IdleGoal
    /\ IdleMc
    /\ IdleFull

RateReturn ==
    /\ pc = "call"
    /\ call = "calculateRealRate"
    /\ fnOut' = [returned |-> TRUE,
                 value |-> calculateRealRate(fnIn.nominalRatePercent,
                                             fnIn.inflationRatePercent)]
    /\ pc' = "done"
    /\ UNCHANGED <<call, engineVars, goalVars, mcVars, fullVars, fnIn>>

NextRate == RateReturn

SpecRate == InitRate /\ [][NextRate]_vars

\* the fixed points of C17: (0, 0) gives 0 and (12, 6) gives 5.66 within 0.01
RateFixedPoints ==
    /\ (fnIn.nominalRatePercent = 0 /\ fnIn.inflationRatePercent = 0) =>
          fnOut.value.num = 0
    /\ (fnIn.nominalRatePercent = 12 /\ fnIn.inflationRatePercent = 6) =>
          /\ 100 * fnOut.value.num - 566 * fnOut.value.den <= fnOut.value.den
          /\ 566 * fnOut.value.den - 100 * fnOut.value.num <= fnOut.value.den

\* the value returned is below the nominal rate
BelowNominal == fnOut.value.num < fnIn.nominalRatePercent * fnOut.value.den

\* C17 as stated: calculateRealRate(0, 0) = 0, calculateRealRate(12, 6) is
\* within 0.01 of 5.66, and for every nominal rate and every inflation rate
\* > 0 the value returned is strictly below the nominal rate.
C17_Fisher_Original ==
    (call = "calculateRealRate" /\ fnOut.returned) =>
        /\ RateFixedPoints
        /\ fnIn.inflationRatePercent > 0 => BelowNominal

\* C17 amended: the same, the value returned being strictly below the
\* nominal rate for every inflation rate > 0 and every nominal rate > -100
\* percent; at -100 percent it equals the nominal rate and below it exceeds it.
C17_Fisher ==
    (call = "calculateRealRate" /\ fnOut.returned) =>
        /\ RateFixedPoints
        /\ (fnIn.inflationRatePercent > 0 /\ fnIn.nominalRatePercent > -100) =>
              BelowNominal
        /\ (fnIn.inflationRatePercent > 0 /\ fnIn.nominalRatePercent = -100) =>
              fnOut.value.num = fnIn.nominalRatePercent * fnOut.value.den
        /\ (fnIn.inflationRatePercent > 0 /\ fnIn.nominalRatePercent < -100) =>
              fnOut.value.num > fnIn.nominalRatePercent * fnOut.value.den

\* C17 witness: calculateRealRate(12, 6) has returned.
C17_Witness ==
    /\ call = "calculateRealRate"
    /\ fnOut.returned
    /\ fnIn.nominalRatePercent = 12
    /\ fnIn.inflationRatePercent = 6
    /\ fnOut.value.num = 600
    /\ fnOut.value.den = 106

-----------------------------------------------------------------------------
(* runSingleSimulation called on its own, one draw per simulated year *)

RunAccParamSet ==
    [initialLumpSum : {0, 2000}, baseMonthlySIP : {0, 10},
     annualStepUpPercent : {10}, expectedReturnPercent : {12},
     durationYears : 0..MaxAccYears]

RunInputSet ==
    [accumulationParams : RunAccParamSet, distributionParams : McDistParamSet,
     targetSurvivalYears : 0..MaxTargetYears]

\* the years for which randomNormalReturn may be called
RunYears(in) == 1..(in.accumulationParams.durationYears + in.targetSurvivalYears)

InitRun ==
    /\ call = "runSingleSimulation"
    /\ pc = "call"
    /\ fnIn \in RunInputSet
    /\ fnOut = [returned |-> FALSE]
    /\ IdleEngines
    /\ IdleGoal
    /\ IdleMc
    /\ IdleFull

RunReturn ==
    /\ pc = "call"
    /\ call = "runSingleSimulation"
    /\ \E draws \in [RunYears(fnIn) -> DrawnReturns] :
          fnOut' = [returned |-> TRUE,
                    value |-> runSingleSimulation(fnIn.accumulationParams,
                                                  fnIn.distributionParams,
                                                  fnIn.targetSurvivalYears, draws)]
    /\ pc' = "done"
    /\ UNCHANGED <<call, engineVars, goalVars, mcVars, fullVars, fnIn>>

NextRun == RunReturn

SpecRun == InitRun /\ [][NextRun]_vars

\* the snapshots of the distribution years of the run returned
RunDistSnapshots ==
    SelectSeq(fnOut.value.yearlyBalances, LAMBDA s : s.phase = "distribution")

\* the snapshots of the accumulation years of the run returned
RunAccSnapshots ==
    SelectSeq(fnOut.value.yearlyBalances, LAMBDA s : s.phase = "accumulation")

\* the balance stayed above 0 through all targetSurvivalYears distribution years
RunStayedPositive ==
    /\ Len(RunDistSnapshots) = fnIn.targetSurvivalYears
    /\ \A i \in 1..Len(RunDistSnapshots) : RunDistSnapshots[i].balance > 0

\* what C18 says of a failed run: the failing year is the last one simulated,
\* its snapshot and the final balance are 0, every year before it closed
\* above 0 and survivalYears counts exactly those years
RunFailedShape ==
    LET n == Len(RunDistSnapshots)
    IN  /\ n >= 1
        /\ RunDistSnapshots[n].balance = 0
        /\ RunDistSnapshots[n].year =
              fnIn.accumulationParams.durationYears + n
        /\ fnOut.value.finalBalance = 0
        /\ \A i \in 1..(n - 1) : RunDistSnapshots[i].balance > 0
        /\ fnOut.value.survivalYears = n - 1
        /\ fnOut.value.survivalYears < fnIn.targetSurvivalYears

\* C18 as stated: a run survived iff its balance stayed above 0 through all
\* targetSurvivalYears distribution years; a failed run stops at the year in
\* which the balance first was <= 0, with that year's snapshot and the final
\* balance 0, and its survivalYears is the number of years completed before,
\* below targetSurvivalYears.
C18_RunFailure_Original ==
    (call = "runSingleSimulation" /\ fnOut.returned) =>
        /\ fnOut.value.survived <=> RunStayedPositive
        /\ ~fnOut.value.survived => RunFailedShape

\* C18 amended: the same for targetSurvivalYears >= 1; with
\* targetSurvivalYears = 0 no distribution year is simulated, the run
\* survived iff corpusAtRetirement > 0 and survivalYears is 0.
C18_RunFailure ==
    (call = "runSingleSimulation" /\ fnOut.returned) =>
        /\ fnIn.targetSurvivalYears >= 1 =>
              /\ fnOut.value.survived <=> RunStayedPositive
              /\ ~fnOut.value.survived => RunFailedShape
        /\ fnIn.targetSurvivalYears = 0 =>
              /\ RunDistSnapshots = <<>>
              /\ fnOut.value.survived <=> fnOut.value.corpusAtRetirement > 0
              /\ fnOut.value.survivalYears = 0

\* C18 witness: a run that completed one distribution year and failed in the
\* second.
C18_Witness ==
    /\ call = "runSingleSimulation"
    /\ fnOut.returned
    /\ ~fnOut.value.survived
    /\ fnIn.targetSurvivalYears = 2
    /\ fnOut.value.survivalYears = 1
    /\ Len(RunDistSnapshots) = 2
    /\ RunDistSnapshots[1].balance > 0
    /\ RunDistSnapshots[2].balance = 0

\* C19: whatever returns are drawn, negative ones included, the accumulation
\* snapshots of a run never decrease from one year to the next and
\* corpusAtRetirement is at least initialLumpSum (lump sum and contribution
\* being non-negative).
C19_AccumulationMonotone ==
    (call = "runSingleSimulation" /\ fnOut.returned) =>
        /\ Len(RunAccSnapshots) = fnIn.accumulationParams.durationYears
        /\ \A i \in 1..Len(RunAccSnapshots) :
              /\ RunAccSnapshots[i].year = i
              /\ RunAccSnapshots[i].balance >=
                    (IF i = 1 THEN fnIn.accumulationParams.initialLumpSum
                     ELSE RunAccSnapshots[i - 1].balance)
        /\ fnOut.value.corpusAtRetirement >= fnIn.accumulationParams.initialLumpSum
        /\ Len(RunAccSnapshots) >= 1 =>
              fnOut.value.corpusAtRetirement =
                  RunAccSnapshots[Len(RunAccSnapshots)].balance

\* C19 witness: two accumulation years, both with a negative return drawn,
\* and a balance that grew by the contributions alone.
C19_Witness ==
    /\ call = "runSingleSimulation"
    /\ fnOut.returned
    /\ Len(RunAccSnapshots) = 2
    /\ RunAccSnapshots[1].annualReturn < 0
    /\ RunAccSnapshots[2].annualReturn < 0
    /\ fnIn.accumulationParams.initialLumpSum > 0
    /\ RunAccSnapshots[1].balance =
          fnIn.accumulationParams.initialLumpSum
          + MonthsPerYear * fnIn.accumulationParams.baseMonthlySIP
    /\ RunAccSnapshots[2].balance > RunAccSnapshots[1].balance

-----------------------------------------------------------------------------
(* runSingleSimulation against calculateFullSimulation: the sampler returning
   the mean of each phase, no life events *)

\* the accumulation return drawn in every year, the distribution years
\* included
MeanDrawsOnePhase(a, d, target) ==
    [y \in 1..(a.durationYears + target) |-> a.expectedReturnPercent]

\* the annual return of every year when randomNormalReturn(mean, 0) returns
\* the mean: the accumulation return up to durationYears, the distribution
\* return after
MeanDraws(a, d, target) ==
    [y \in 1..(a.durationYears + target) |->
        IF y <= a.durationYears THEN a.expectedReturnPercent
        ELSE d.expectedReturnPercent]

\* the run of runSingleSimulation on the parameters of the full simulation
MeanRun(target) ==
    runSingleSimulation(accParams, distParams, target,
                        MeanDraws(accParams, distParams, target))

\* every snapshot of the run is the closingBalance of the record of the same
\* year in combinedData
SnapshotsMatch(run) ==
    \A i \in 1..Len(run.yearlyBalances) :
        /\ i <= Len(fullRet.combinedData)
        /\ fullRet.combinedData[i].year = run.yearlyBalances[i].year
        /\ fullRet.combinedData[i].phase = run.yearlyBalances[i].phase
        /\ fullRet.combinedData[i].closingBalance = run.yearlyBalances[i].balance

\* the deterministic distribution closes a year at 0 within the first
\* `target` years
DepletesWithin(target) ==
    \E i \in 1..Min(target, Len(fullRet.distribution.yearlyData)) :
        fullRet.distribution.yearlyData[i].closingBalance <= 0

\* the full simulation has returned for a call C20 is about: no life events
\* (the parameter sets hold returns >= 0 and withdrawals > 0)
MeanCase ==
    /\ call = "fullSimulation"
    /\ pc = "fullDone"
    /\ fullIn.lifeEvents = <<>>
    /\ accParams.expectedReturnPercent >= 0
    /\ distParams.expectedReturnPercent >= 0
    /\ distParams.initialMonthlyWithdrawal > 0

\* C20 as stated: with the sampler returning the mean, returns >= 0, a
\* withdrawal > 0, no life events and targetSurvivalYears <= maxYears, every
\* snapshot of the run equals the closingBalance of calculateFullSimulation
\* for that year and the run fails exactly when the deterministic run
\* depletes within targetSurvivalYears.
C20_Refinement_Original ==
    MeanCase =>
        \A target \in 1..distParams.maxYears :
            /\ SnapshotsMatch(MeanRun(target))
            /\ ~MeanRun(target).survived <=> DepletesWithin(target)

\* C20 amended: the same when the corpus at retirement is above 0; with a
\* corpus of 0 calculateFullSimulation has no distribution record at all
\* while the run fails at once, with a snapshot of 0 for year
\* durationYears + 1 when targetSurvivalYears >= 1.
C20_Refinement ==
    MeanCase =>
        \A target \in 0..distParams.maxYears :
            /\ fullRet.accumulation.summary.finalCorpus > 0 =>
                  /\ SnapshotsMatch(MeanRun(target))
                  /\ ~MeanRun(target).survived <=> DepletesWithin(target)
            /\ fullRet.accumulation.summary.finalCorpus = 0 =>
                  /\ fullRet.distribution.yearlyData = <<>>
                  /\ ~MeanRun(target).survived
                  /\ Len(MeanRun(target).yearlyBalances) =
                        accParams.durationYears + Min(target, 1)
                  /\ \A i \in 1..Len(MeanRun(target).yearlyBalances) :
                        i > accParams.durationYears =>
                            MeanRun(target).yearlyBalances[i].balance = 0

\* C20 witness: a full simulation with an ongoing contribution and different
\* returns in the two phases that depletes in its second distribution year,
\* the run with targetSurvivalYears = 2 failing in the same year after the
\* same balances.
C20_Witness ==
    /\ MeanCase
    /\ accParams.durationYears >= 1
    /\ accParams.expectedReturnPercent # distParams.expectedReturnPercent
    /\ distParams.ongoingMonthlySIP > 0
    /\ distParams.maxYears >= 2
    /\ Len(fullRet.distribution.yearlyData) = 2
    /\ fullRet.distribution.yearlyData[1].closingBalance > 0
    /\ fullRet.distribution.yearlyData[2].closingBalance = 0
    /\ ~MeanRun(2).survived
    /\ MeanRun(2).survivalYears = 1
    /\ MeanRun(1).survived
    /\ SnapshotsMatch(MeanRun(2))

-----------------------------------------------------------------------------
(* The two accumulation loops in rounded arithmetic: calculateFutureValue
   computes balance * (1 + monthlyRate) + currentSIP, calculateAccumulationPhase
   adds balance * monthlyRate and then currentSIP.  Every JavaScript number
   operation rounds its result to the nearest representable value (ties to
   even); here a number >= 0 is m * 2^e with a significand m of
   SignificandBits bits, where a double has 53. *)

SignificandBits == 12
MaxFvYears == 3

FlZero == [m |-> 0, e |-> 0]

\* the number of bits of n >= 0
BitLen(n) == CHOOSE k \in 0..30 : n < 2 ^ k /\ (k = 0 \/ 2 ^ (k - 1) <= n)

\* n * 2^e (plus a nonzero fraction below one unit of n when sticky) rounded
\* to nearest, ties to even
FlRound(n, e, sticky) ==
    IF n = 0 THEN FlZero
    ELSE LET len == BitLen(n)
         IN  IF len <= SignificandBits
             THEN [m |-> n * 2 ^ (SignificandBits - len),
                   e |-> e - (SignificandBits - len)]
             ELSE LET s == len - SignificandBits
                      q == n \div 2 ^ s
                      rem == n % 2 ^ s
                      half == 2 ^ (s - 1)
                      up == rem > half
                            \/ (rem = half /\ (sticky \/ q % 2 = 1))
                      r == IF up THEN q + 1 ELSE q
                  IN  IF r = 2 ^ SignificandBits
                      THEN [m |-> 2 ^ (SignificandBits - 1), e |-> e + s + 1]
                      ELSE [m |-> r, e |-> e + s]

\* a whole number as a JavaScript number
FlInt(n) == FlRound(n, 0, FALSE)

\* x * y
FlMul(x, y) == FlRound(x.m * y.m, x.e + y.e, FALSE)

\* x + y
FlAdd(x, y) ==
    IF x.m = 0 THEN y
    ELSE IF y.m = 0 THEN x
    ELSE LET hi == IF x.e >= y.e THEN x ELSE y
             lo == IF x.e >= y.e THEN y ELSE x
             d == hi.e - lo.e
         IN  IF d > SignificandBits + 1 THEN hi
             ELSE FlRound(hi.m * 2 ^ d + lo.m, lo.e, FALSE)

\* x / y, y > 0
FlDiv(x, y) ==
    IF x.m = 0 THEN FlZero
    ELSE LET n == x.m * 2 ^ (SignificandBits + 2)
         IN  FlRound(n \div y.m, x.e - y.e - (SignificandBits + 2), n % y.m # 0)

\* x < y
FlLess(x, y) ==
    IF y.m = 0 THEN FALSE
    ELSE IF x.m = 0 THEN TRUE
    ELSE x.e < y.e \/ (x.e = y.e /\ x.m < y.m)

\* x <= y
FlLeq(x, y) == x = y \/ FlLess(x, y)

\* expectedReturnPercent / 100 / 12
FlMonthlyRate(pct) == FlDiv(FlDiv(FlInt(pct), FlInt(100)), FlInt(MonthsPerYear))

\* 1 + stepUpPercent / 100
FlStepUpFactor(pct) == FlAdd(FlInt(1), FlDiv(FlInt(pct), FlInt(100)))

\* balance = balance * (1 + monthlyRate) + currentSIP
FvMonth(b, sip, rate) == FlAdd(FlMul(b, FlAdd(FlInt(1), rate)), sip)

\* the contribution added before the interest is computed
AccMonthContributionFirst(b, sip, rate) ==
    FlAdd(FlAdd(b, sip), FlMul(FlAdd(b, sip), rate))

\* interestThisMonth = balance * monthlyRate; balance += interestThisMonth;
\* balance += currentSIP
AccMonthRounded(b, sip, rate) == FlAdd(FlAdd(b, FlMul(b, rate)), sip)

RECURSIVE FvLoop(_, _, _, _, _)
\* the loops of calculateFutureValue: the balance after `months` more months,
\* the contribution stepped up after the last month of each year
FvLoop(b, sip, rate, stepUp, months) ==
    IF months = 0 THEN b
    ELSE LET nb == FvMonth(b, sip, rate)
             nsip == IF months % MonthsPerYear = 1 THEN FlMul(sip, stepUp) ELSE sip
         IN  IF nb \in [m : Int, e : Int] /\ nsip \in [m : Int, e : Int]
             THEN FvLoop(nb, nsip, rate, stepUp, months - 1)
             ELSE nb

\* the projection that forgets the contribution: the lump sum alone
FutureValueOfLumpSum(in) ==
    FvLoop(FlInt(in.lumpSum), FlZero,
           FlMonthlyRate(in.expectedReturnPercent),
           FlStepUpFactor(in.stepUpPercent), MonthsPerYear * in.years)

\* calculateFutureValue in rounded arithmetic
FutureValueRounded(in) ==
    FvLoop(FlInt(in.lumpSum), FlInt(in.monthlySIP),
           FlMonthlyRate(in.expectedReturnPercent),
           FlStepUpFactor(in.stepUpPercent), MonthsPerYear * in.years)

FvInputSet ==
    [lumpSum : {0, 1000, 100000}, monthlySIP : {0, 100, 101, 2500},
     stepUpPercent : {0, 10}, expectedReturnPercent : {0, 4, 12},
     years : 0..MaxFvYears]

\* the step-up applied to the base instead of the current contribution
SteppedFromBase(sip, base, factor) == FlMul(base, factor)

\* currentSIP = currentSIP * (1 + stepUpRate)
Stepped(sip, base, factor) == FlMul(sip, factor)

\* the locals of calculateAccumulationPhase called without life events,
\* in rounded arithmetic
InitFv ==
    /\ call = "calculateFutureValue"
    /\ pc = "flYear"
    /\ fnIn \in FvInputSet
    /\ fnOut = [returned |-> FALSE, year |-> 1, month |-> 1,
                balance |-> FlInt(fnIn.lumpSum),
                currentSIP |-> FlInt(fnIn.monthlySIP),
                yearlyContribution |-> FlZero,
                yearlyData |-> <<>>]
    /\ IdleEngines
    /\ IdleGoal
    /\ IdleMc
    /\ IdleFull

\* top of the year loop of calculateAccumulationPhase
FlAccYearStart ==
    /\ pc = "flYear"
    /\ call = "calculateFutureValue"
    /\ fnOut.year <= fnIn.years
    /\ fnOut' = [fnOut EXCEPT !.yearlyContribution = FlZero, !.month = 1]
    /\ pc' = "flMonths"
    /\ UNCHANGED <<call, engineVars, goalVars, mcVars, fullVars, fnIn>>

\* one iteration of the month loop of calculateAccumulationPhase
FlAccMonth ==
    /\ pc = "flMonths"
    /\ fnOut' = [fnOut EXCEPT
                   !.balance = AccMonthRounded(@, fnOut.currentSIP,
                                   FlMonthlyRate(fnIn.expectedReturnPercent)),
                   !.yearlyContribution = FlAdd(@, fnOut.currentSIP),
                   !.month = @ + 1]
    /\ pc' = IF fnOut.month + 1 <= MonthsPerYear THEN "flMonths" ELSE "flClose"
    /\ UNCHANGED <<call, engineVars, goalVars, mcVars, fullVars, fnIn>>

\* the push of the year's record and the step-up
FlAccCloseYear ==
    /\ pc = "flClose"
    /\ fnOut' = [fnOut EXCEPT
                   !.yearlyData = Append(@, [year |-> fnOut.year,
                                             contribution |-> fnOut.yearlyContribution,
                                             closingBalance |-> fnOut.balance,
                                             sipAmount |-> fnOut.currentSIP]),
                   !.currentSIP = Stepped(@, FlInt(fnIn.monthlySIP),
                                         FlStepUpFactor(fnIn.stepUpPercent)),
                   !.year = @ + 1]
    /\ pc' = "flYear"
    /\ UNCHANGED <<call, engineVars, goalVars, mcVars, fullVars, fnIn>>

\* calculateAccumulationPhase returns; calculateFutureValue is called on the
\* same inputs
FvReturn ==
    /\ pc = "flYear"
    /\ call = "calculateFutureValue"
    /\ fnOut.year > fnIn.years
    /\ fnOut' = [returned |-> TRUE,
                 yearlyData |-> fnOut.yearlyData,
                 finalCorpus |-> fnOut.balance,
                 futureValue |-> FutureValueRounded(fnIn)]
    /\ pc' = "done"
    /\ UNCHANGED <<call, engineVars, goalVars, mcVars, fullVars, fnIn>>

NextFv == FlAccYearStart \/ FlAccMonth \/ FlAccCloseYear \/ FvReturn

SpecFv == InitFv /\ [][NextFv]_vars

\* how far apart x and y are, in units of the last place of the smaller one
\* (FarApart when more than four times apart)
FarApart == 2 ^ 20

UlpDistance(x, y) ==
    IF x = y THEN 0
    ELSE IF x.m = 0 \/ y.m = 0 THEN FarApart
    ELSE LET hi == IF x.e >= y.e THEN x ELSE y
             lo == IF x.e >= y.e THEN y ELSE x
         IN  IF hi.e - lo.e > 2 THEN FarApart
             ELSE Abs(hi.m * 2 ^ (hi.e - lo.e) - lo.m)

\* C21 as stated: calculateFutureValue equals the finalCorpus of
\* calculateAccumulationPhase for the same lump sum, contribution, step-up,
\* return and duration without life events, years = 0 included.
C21_SameProjection_Original ==
    (call = "calculateFutureValue" /\ fnOut.returned) =>
        fnOut.futureValue = fnOut.finalCorpus

\* C21 amended: the two results are the same number when years = 0 (the lump
\* sum) or the return is 0, and otherwise differ by rounding only, at most 3
\* units in the last place per simulated month.
C21_SameProjection ==
    (call = "calculateFutureValue" /\ fnOut.returned) =>
        /\ fnIn.years = 0 =>
              /\ fnOut.futureValue = FlInt(fnIn.lumpSum)
              /\ fnOut.finalCorpus = FlInt(fnIn.lumpSum)
        /\ fnIn.expectedReturnPercent = 0 => fnOut.futureValue = fnOut.finalCorpus
        /\ UlpDistance(fnOut.futureValue, fnOut.finalCorpus)
              <= 3 * MonthsPerYear * fnIn.years

\* C21 witness: a projection over two years with a step-up whose two results
\* differ in the last places.
C21_Witness ==
    /\ call = "calculateFutureValue"
    /\ fnOut.returned
    /\ fnIn.years = 2
    /\ fnIn.stepUpPercent > 0
    /\ fnIn.monthlySIP > 0
    /\ fnIn.lumpSum > 0
    /\ fnOut.futureValue # fnOut.finalCorpus
    /\ UlpDistance(fnOut.futureValue, fnOut.finalCorpus) <= 3

\* calculateFutureValue with the contribution of the call replaced by sip
FutureValueWith(sip) == FutureValueRounded([fnIn EXCEPT !.monthlySIP = sip])

\* the contributions a projection is compared with
OtherSIPs == {in.monthlySIP : in \in FvInputSet}

\* gap is more than 8 units in the last place of x
AboveRounding(gap, x) ==
    IF x.e >= 0 THEN gap > 8 * 2 ^ x.e ELSE gap * 2 ^ (0 - x.e) > 8

\* C22 as stated: for years >= 1 (return and step-up >= 0) a contribution
\* a <= b gives futureValue(a) <= futureValue(b), strictly when a < b.
C22_Monotone_Original ==
    (call = "calculateFutureValue" /\ fnOut.returned /\ fnIn.years >= 1) =>
        \A b \in OtherSIPs :
            /\ fnIn.monthlySIP <= b => FlLeq(fnOut.futureValue, FutureValueWith(b))
            /\ fnIn.monthlySIP < b => FlLess(fnOut.futureValue, FutureValueWith(b))

\* C22 amended: a <= b gives futureValue(a) <= futureValue(b) always; the
\* inequality is strict when b - a is more than 8 units in the last place of
\* futureValue(b), while closer contributions can give the same result.
C22_Monotone ==
    (call = "calculateFutureValue" /\ fnOut.returned /\ fnIn.years >= 1) =>
        \A b \in OtherSIPs :
            /\ fnIn.monthlySIP <= b => FlLeq(fnOut.futureValue, FutureValueWith(b))
            /\ (fnIn.monthlySIP < b
                  /\ AboveRounding(b - fnIn.monthlySIP, FutureValueWith(b))) =>
                  FlLess(fnOut.futureValue, FutureValueWith(b))

\* C22 witness: two contributions one apart, the projection of the larger
\* strictly above the projection of the smaller.
C22_Witness ==
    /\ call = "calculateFutureValue"
    /\ fnOut.returned
    /\ fnIn.years = 2
    /\ fnIn.monthlySIP = 100
    /\ fnIn.expectedReturnPercent > 0
    /\ FlLess(fnOut.futureValue, FutureValueWith(101))
    /\ FlLess(FutureValueWith(101), FutureValueWith(2500))

RECURSIVE PowerOfStepUp(_)
\* (1 + stepUp)^n, one factor at a time
PowerOfStepUp(n) ==
    IF n = 0 THEN FlInt(1)
    ELSE FlMul(PowerOfStepUp(n - 1), FlStepUpFactor(fnIn.stepUpPercent))

\* baseMonthlySIP * (1 + stepUp)^(y - 1)
ClosedFormSIP(y) == FlMul(FlInt(fnIn.monthlySIP), PowerOfStepUp(y - 1))

\* the contribution in use while year y is simulated: the base in year 1, the
\* contribution of the year before stepped up once after
SIPInUse(y) ==
    IF y = 1 THEN FlInt(fnIn.monthlySIP)
    ELSE FlMul(fnOut.yearlyData[y - 1].sipAmount,
               FlStepUpFactor(fnIn.stepUpPercent))

-----------------------------------------------------------------------------
(* Further properties of the deterministic engines *)

RECURSIVE SumContributions(_, _)
\* the contributions of the first n records of q
SumContributions(q, n) ==
    IF n = 0 THEN 0 ELSE SumContributions(q, n - 1) + q[n].contribution

RECURSIVE SumAdditions(_, _)
\* the amounts of the addition events of es with a year in 1..y
SumAdditions(es, y) ==
    IF es = <<>> THEN 0
    ELSE (IF Head(es).type = "addition" /\ Head(es).year \in 1..y
          THEN Head(es).amount ELSE 0) + SumAdditions(Tail(es), y)

\* totalInvested of every accumulation record: the lump sum, the
\* contributions and the additions up to its year, never below the record
\* before
InvestedSoFar ==
    call = "accumulation" =>
        \A i \in 1..Len(yearlyData) :
            /\ yearlyData[i].totalInvested =
                  accParams.initialLumpSum + SumContributions(yearlyData, i)
                  + SumAdditions(lifeEvents, yearlyData[i].year)
            /\ yearlyData[i].totalInvested >=
                  (IF i = 1 THEN accParams.initialLumpSum
                   ELSE yearlyData[i - 1].totalInvested)

\* the summary of a returned accumulation
InvestedSummary ==
    (call = "accumulation" /\ ret.returned) =>
        /\ ret.summary.totalInvested =
              accParams.initialLumpSum
              + SumContributions(ret.yearlyData, Len(ret.yearlyData))
              + SumAdditions(lifeEvents, accParams.durationYears)
        /\ ret.summary.totalGains =
              ret.summary.finalCorpus - ret.summary.totalInvested
        /\ ret.summary.totalInvested # 0 =>
              /\ ret.summary.wealthMultiplier.num = ret.summary.finalCorpus
              /\ ret.summary.wealthMultiplier.den = ret.summary.totalInvested
        /\ ret.summary.totalInvested = 0 =>
              /\ ret.summary.wealthMultiplier.num = 0
              /\ ret.summary.wealthMultiplier.den # 0

\* an event of the accumulation changes totalInvested by its amount when it
\* is an addition and not at all when it is a withdrawal
InvestedStep ==
    (call = "accumulation" /\ pc = "accEvents") =>
        /\ Head(yearEvents).type = "withdrawal" => totalInvested' = totalInvested
        /\ Head(yearEvents).type = "addition" =>
              totalInvested' = totalInvested + Head(yearEvents).amount

\* C24: totalInvested of the accumulation is initialLumpSum plus the
\* recurring contributions plus the addition events applied so far, a
\* withdrawal event leaves it unchanged, it never decreases from year to
\* year, and the summary has totalGains = finalCorpus - totalInvested and
\* wealthMultiplier = finalCorpus / totalInvested, or 0 when totalInvested
\* is 0.
C24_TotalInvested ==
    /\ []InvestedSoFar
    /\ []InvestedSummary
    /\ [][InvestedStep]_vars

\* C24 witness: a returned accumulation that applied a withdrawal and then an
\* addition in its simulated years and multiplied the amount invested.
C24_Witness ==
    /\ call = "accumulation"
    /\ ret.returned
    /\ Len(lifeEvents) = 2
    /\ lifeEvents[1].type = "withdrawal"
    /\ lifeEvents[2].type = "addition"
    /\ \A i \in 1..2 : lifeEvents[i].year \in 1..accParams.durationYears
    /\ accParams.baseMonthlySIP > 0
    /\ ret.summary.totalInvested =
          accParams.initialLumpSum + lifeEvents[2].amount
          + SumContributions(ret.yearlyData, Len(ret.yearlyData))
    /\ ret.summary.wealthMultiplier.num > ret.summary.wealthMultiplier.den

-----------------------------------------------------------------------------
(* The deterministic engines called with events that can cancel each other *)

\* an addition and a withdrawal of the same amount, and a withdrawal above
\* every balance of the model
CancellingKinds ==
    { [amount |-> 300, type |-> "addition"],
      [amount |-> 300, type |-> "withdrawal"],
      [amount |-> 1200, type |-> "withdrawal"] }

\* every list of at most MaxEvents events of these kinds with years in ys;
\* the label of an event is its position in the list
EventListsOf(ys, kinds) ==
    UNION { { [i \in 1..n |->
                [year |-> f[i][1], amount |-> f[i][2].amount,
                 type |-> f[i][2].type, label |-> i]]
              : f \in [1..n -> ys \X kinds] }
            : n \in 0..MaxEvents }

InitEvAcc ==
    /\ call = "accumulation"
    /\ accParams \in [initialLumpSum : {1000}, baseMonthlySIP : {100},
                      annualStepUpPercent : {0}, expectedReturnPercent : {12},
                      durationYears : 0..MaxAccYears, inflationRatePercent : {6}]
    /\ distParams = DefaultDist
    /\ lifeEvents \in EventListsOf(1..MaxAccYears, CancellingKinds)
    /\ startingCorpus = 0
    /\ accumulationYears = 0
    /\ pc = "accYear"
    /\ year = 1
    /\ month = 1
    /\ yearEvents = <<>>
    /\ balance = accParams.initialLumpSum
    /\ currentSIP = accParams.baseMonthlySIP
    /\ currentWithdrawal = 0
    /\ totalInvested = accParams.initialLumpSum
    /\ totalWithdrawn = 0
    /\ survivalMonths = 0
    /\ yr = YearLocals(0)
    /\ yearlyData = <<>>
    /\ ret = [returned |-> FALSE]
    /\ IdleGoal
    /\ IdleMc
    /\ IdleFull
    /\ IdleFn

InitEvDist ==
    /\ call = "distribution"
    /\ accParams = DefaultAcc
    /\ distParams \in [initialMonthlyWithdrawal : {50}, withdrawalGrowthPercent : {10},
                       ongoingMonthlySIP : {0}, sipStepUpPercent : {0},
                       expectedReturnPercent : {12}, maxYears : 0..MaxDistYears]
    /\ startingCorpus \in {0, 1000}
    /\ accumulationYears \in {0, MaxAccYears}
    /\ lifeEvents \in EventListsOf((accumulationYears + 1)..(accumulationYears + MaxDistYears),
                                   CancellingKinds)
    \* a call the guard turns away is drawn with one horizon and no event
    /\ startingCorpus <= 0 => (distParams.maxYears = MaxDistYears /\ lifeEvents = <<>>)
    /\ pc = "distGuard"
    /\ year = 1
    /\ month = 1
    /\ yearEvents = <<>>
    /\ balance = 0
    /\ currentSIP = 0
    /\ currentWithdrawal = 0
    /\ totalInvested = 0
    /\ totalWithdrawn = 0
    /\ survivalMonths = 0
    /\ yr = YearLocals(0)
    /\ yearlyData = <<>>
    /\ ret = [returned |-> FALSE]
    /\ IdleGoal
    /\ IdleMc
    /\ IdleFull
    /\ IdleFn

InitEv == InitEvAcc \/ InitEvDist

SpecEv == InitEv /\ [][Next]_vars

\* the net signed sum of the amounts of es
NetAmount(es) == SumSigned(es)

\* the lifeEvent a record of a year with the events es carries according to
\* C25: the net amount with the label and type of the last event
LastEventNet(es) ==
    [amount |-> NetAmount(es), label |-> es[Len(es)].label,
     type |-> es[Len(es)].type]

\* C25 as stated: a record of a year in which events were applied has a
\* non-null lifeEvent with the net signed sum of their amounts and the label
\* and type of the last of them in list order.
C25_LifeEventRecord_Original ==
    \A i \in 1..Len(yearlyData) :
        LET es == EventsInYear(yearlyData[i].year) IN
        es # <<>> =>
            /\ yearlyData[i].lifeEvent # Null
            /\ yearlyData[i].lifeEvent = LastEventNet(es)

\* C25 amended: the lifeEvent of a record is non-null exactly when the net
\* signed sum of the year's events is not 0, and then carries that sum with
\* the label and type of the last event in list order; events that cancel
\* each other leave it null.
C25_LifeEventRecord ==
    \A i \in 1..Len(yearlyData) :
        LET es == EventsInYear(yearlyData[i].year) IN
        /\ (es # <<>> /\ NetAmount(es) # 0) =>
              yearlyData[i].lifeEvent = LastEventNet(es)
        /\ (es = <<>> \/ NetAmount(es) = 0) => yearlyData[i].lifeEvent = Null

\* C25 witness: a distribution record of a year with an addition and then a
\* larger withdrawal carries their negative net with the withdrawal's label.
C25_Witness ==
    \E i \in 1..Len(yearlyData) :
        LET es == EventsInYear(yearlyData[i].year) IN
        /\ yearlyData[i].phase = "distribution"
        /\ Len(es) = 2
        /\ es[1].type = "addition"
        /\ es[2].type = "withdrawal"
        /\ yearlyData[i].lifeEvent.amount = es[1].amount - es[2].amount
        /\ yearlyData[i].lifeEvent.amount < 0
        /\ yearlyData[i].lifeEvent.label = es[2].label
        /\ yearlyData[i].lifeEvent.type = "withdrawal"

-----------------------------------------------------------------------------
(* Survival period of calculateDistributionPhase *)

\* the survival period of a run that passed the guard
SurvivalDecomposition ==
    (call = "distribution" /\ ret.returned
        /\ ~GuardFails(startingCorpus, distParams.initialMonthlyWithdrawal)) =>
        LET sp == ret.survivalPeriod IN
        /\ sp.years * MonthsPerYear + sp.months = sp.totalMonths
        /\ sp.months \in 0..(MonthsPerYear - 1)
        /\ sp.totalMonths \in 0..(MonthsPerYear * distParams.maxYears)
        /\ Len(ret.yearlyData) <= distParams.maxYears
        /\ Len(ret.yearlyData) * MonthsPerYear >= sp.totalMonths

\* survivalMonths counts the monthly steps: one more with every executed
\* step of the month loop, the one that empties the balance included, and
\* unchanged by every other step after the declarations
SurvivalCount ==
    call = "distribution" =>
        /\ (pc = "distMonths" /\ balance > 0) =>
              /\ survivalMonths' = survivalMonths + 1
              /\ yr'.monthsThisYear = yr.monthsThisYear + 1
        /\ (pc \notin {"distMonths", "distGuard"} \/ (pc = "distMonths" /\ balance <= 0)) =>
              survivalMonths' = survivalMonths
        /\ pc = "distGuard" => survivalMonths' = 0
        /\ (pc = "distReturn") => ret'.survivalPeriod.totalMonths = survivalMonths

\* C26: for every run of calculateDistributionPhase that passes the guard,
\* years * 12 + months = totalMonths with 0 <= months <= 11 and
\* 0 <= totalMonths <= 12 * maxYears, totalMonths is the number of monthly
\* steps executed (the month in which the balance reaches zero counted), and
\* the number of records is at most maxYears and at least
\* ceil(totalMonths / 12).
C26_SurvivalDecomposition ==
    /\ []SurvivalDecomposition
    /\ [][SurvivalCount]_vars

\* C26 witness: a run that depleted in the middle of its second year, the
\* month of depletion counted.
C26_Witness ==
    /\ call = "distribution"
    /\ ret.returned
    /\ Len(ret.yearlyData) = 2
    /\ ret.yearlyData[2].closingBalance = 0
    /\ ret.survivalPeriod.years = 1
    /\ ret.survivalPeriod.months \in 1..(MonthsPerYear - 1)
    /\ ret.survivalPeriod.totalMonths = MonthsPerYear + ret.survivalPeriod.months
    /\ lifeEvents = <<>>

-----------------------------------------------------------------------------
(* Ledger of a year with life events *)

\* closingBalance = openingBalance + lifeEvent.amount (0 when null)
\* + interestEarned + contribution - withdrawal
LedgerBalances(r) ==
    r.closingBalance = r.openingBalance + r.lifeEvent.amount + r.interestEarned
                       + r.contribution - r.withdrawal

\* what the events of the year of record r took from or added to the balance
EventEffect(r) == FoldEvents(r.openingBalance, EventsInYear(r.year)) - r.openingBalance

\* C27: in every record of either phase closingBalance = openingBalance +
\* lifeEvent.amount (0 when lifeEvent is null) + interestEarned + contribution
\* - withdrawal, a withdrawal event above the available balance included.
C27_LedgerWithEvents ==
    \A i \in 1..Len(yearlyData) : LedgerBalances(yearlyData[i])

\* the ledger of every record whose events changed the balance by the amount
\* recorded
LedgerOfUnclampedYears ==
    \A i \in 1..Len(yearlyData) :
        EventEffect(yearlyData[i]) = SumSigned(EventsInYear(yearlyData[i].year)) =>
            LedgerBalances(yearlyData[i])

-----------------------------------------------------------------------------
(* Convergence of the bisection of calculateRequiredSIP *)

\* the call went through the bisection and has returned
Bisected ==
    /\ call = "requiredSIP"
    /\ pc = "done"
    /\ goalIn.targetCorpus # Infinity
    /\ goalIn.targetCorpus > LumpSumFV

\* the search stopped on the tolerance test, before the iterations ran out,
\* and the corpus reported is within the tolerance of the target
ReachedTolerance ==
    /\ iter < MaxIterations
    /\ WithinTolerance(Projected(requiredSIP), goalIn.targetCorpus)
    /\ (goalRet.isAchievable /\ goalRet.requiredSIP > 0) =>
          Abs(goalRet.projectedCorpus - goalIn.targetCorpus) <= Tolerance * Scale

\* the first upper bound of the search projects to the target at least
UpperBoundProjects ==
    Projected(goalIn.targetCorpus \div MonthsPerYear) >= goalIn.targetCorpus

Converged ==
    ReachedTolerance /\ UpperBoundProjects

\* C28: for every finite targetCorpus above what the lump sum grows to,
\* yearsToRetirement >= 0 and return and step-up >= 0, the search stops within
\* 100 iterations having reached the tolerance, the projectedCorpus reported
\* with isAchievable and requiredSIP > 0 is within 100 of targetCorpus, and
\* the first upper bound targetCorpus / 12 projects to at least targetCorpus.
C28_BisectionConverges ==
    Bisected => Converged

\* with at least one year to retirement the search does reach the tolerance
ReachesToleranceFromOneYear ==
    (Bisected /\ goalIn.yearsToRetirement >= 1) => ReachedTolerance

\* with no year to retirement a target further away than the tolerance is
\* never reached, and the call still reports the plan achievable
NeverReachedWithoutYears ==
    ( /\ Bisected
      /\ goalIn.yearsToRetirement = 0
      /\ goalIn.targetCorpus - LumpSumFV >= Tolerance * Scale ) =>
        /\ iter = MaxIterations
        /\ goalRet.isAchievable
        /\ goalRet.requiredSIP > 0
        /\ goalRet.projectedCorpus = goalIn.currentLumpSum

-----------------------------------------------------------------------------
(* YearlyBreakdown: the pages of the table on the Details tab *)

MaxAccumulationRows == 12
MaxDistributionRows == 14

rowsPerPage == 10

Tabs == {"input", "analysis", "details", "goal"}

\* what the simulation of the current inputs gives to the table: the records
\* of the accumulation, and those of the distribution without and with the
\* withdrawal and contribution inflated for real values
RowCounts ==
    [accumulation : 0..MaxAccumulationRows,
     nominal : 0..MaxDistributionRows,
     real : 0..MaxDistributionRows]

\* data.length: accumulation.yearlyData and distribution.yearlyData
DataLength ==
    fnIn.rows.accumulation
        + (IF fnIn.showRealValues THEN fnIn.rows.real ELSE fnIn.rows.nominal)

\* Math.ceil(data.length / rowsPerPage)
totalPages == (DataLength + rowsPerPage - 1) \div rowsPerPage

\* data.slice(start, start + rowsPerPage).length
paginatedData ==
    LET start == fnOut.currentPage * rowsPerPage IN
    Min(DataLength, start + rowsPerPage) - Min(DataLength, start)

Mounted == fnIn.activeTab = "details"

InitPage ==
    /\ call = "YearlyBreakdown"
    /\ pc = "app"
    /\ fnIn \in [called : {TRUE}, activeTab : {"input"},
                 showRealValues : {FALSE}, rows : RowCounts]
    /\ fnOut = [returned |-> FALSE, currentPage |-> 0]
    /\ IdleEngines
    /\ IdleGoal
    /\ IdleMc
    /\ IdleFull

\* TabNavigation: the table is rendered on the Details tab only, and its
\* state starts from useState(0) each time it is mounted
TabChange ==
    \E tab \in Tabs :
        /\ tab # fnIn.activeTab
        /\ fnIn' = [fnIn EXCEPT !.activeTab = tab]
        /\ fnOut' = IF tab = "details" \/ Mounted
                        THEN [fnOut EXCEPT !.currentPage = 0]
                        ELSE fnOut
        /\ UNCHANGED <<call, pc, engineVars, goalVars, mcVars, fullVars>>

\* the forms of the Input tab change the parameters, and so the records
EditInputs ==
    /\ fnIn.activeTab = "input"
    /\ \E rows \in RowCounts :
          /\ rows # fnIn.rows
          /\ fnIn' = [fnIn EXCEPT !.rows = rows]
    /\ UNCHANGED <<call, pc, engineVars, goalVars, mcVars, fullVars, fnOut>>

\* the toggle of the header, on every tab; currentPage is kept
ToggleRealValues ==
    /\ fnIn' = [fnIn EXCEPT !.showRealValues = ~fnIn.showRealValues]
    /\ UNCHANGED <<call, pc, engineVars, goalVars, mcVars, fullVars, fnOut>>

\* the buttons exist when the table has rows and more than one page
PaginationShown == Mounted /\ DataLength > 0 /\ totalPages > 1

PreviousPage ==
    /\ PaginationShown
    /\ fnOut.currentPage # 0
    /\ fnOut' = [fnOut EXCEPT !.currentPage = Max(0, fnOut.currentPage - 1)]
    /\ UNCHANGED <<call, pc, engineVars, goalVars, mcVars, fullVars, fnIn>>

NextPage ==
    /\ PaginationShown
    /\ ~(fnOut.currentPage >= totalPages - 1)
    /\ fnOut' = [fnOut EXCEPT
                   !.currentPage = Min(totalPages - 1, fnOut.currentPage + 1)]
    /\ UNCHANGED <<call, pc, engineVars, goalVars, mcVars, fullVars, fnIn>>

NextPageSpec ==
    TabChange \/ EditInputs \/ ToggleRealValues \/ PreviousPage \/ NextPage

SpecPage == InitPage /\ [][NextPageSpec]_vars

\* C29: while the table stays mounted, after any Previous and Next clicks and
\* changes of data, whenever data is non-empty currentPage is within
\* 0..totalPages-1 and the page displayed has at least one row.
C29_PageInRange ==
    (call = "YearlyBreakdown" /\ Mounted /\ DataLength > 0) =>
        /\ fnOut.currentPage \in 0..(totalPages - 1)
        /\ paginatedData >= 1

\* the page is in range as long as the data has not become shorter under it
PageWithinLongest ==
    (call = "YearlyBreakdown" /\ Mounted) =>
        fnOut.currentPage * rowsPerPage
            < Max(rowsPerPage,
                  fnIn.rows.accumulation + Max(fnIn.rows.nominal, fnIn.rows.real))

\* an empty page whose buttons are not rendered
EmptyPageWithoutButtons ==
    /\ call = "YearlyBreakdown"
    /\ Mounted
    /\ DataLength > 0
    /\ paginatedData = 0
    /\ ~PaginationShown

-----------------------------------------------------------------------------
(* GoalFinderTab inside App: the inputs of the goal finder, its result, and *)
(* the export of the result to the simulator.  accParams, distParams and    *)
(* lifeEvents are the states accumulationParams, distributionParams and     *)
(* lifeEvents of App; fullIn holds activeTab, showRealValues and the        *)
(* handler that ran last; fnIn and fnOut are the inputs and the result of   *)
(* the mounted GoalFinderTab.                                               *)

\* the inputs GoalFinderTab is mounted with
DefaultGoalInputs ==
    [yearsToRetirement |-> MaxAccYears, currentLumpSum |-> 1000 * Scale,
     monthlyWithdrawalToday |-> 10 * Scale, expectedReturnPercent |-> 12,
     inflationPercent |-> 6, withdrawalGrowthPercent |-> 6, stepUpPercent |-> 10,
     sustainForever |-> TRUE, sustainYears |-> 2]

\* the fields edited, each within the values of PlanInputSet
EditedFields ==
    {"yearsToRetirement", "currentLumpSum", "expectedReturnPercent", "sustainForever"}

\* setInputs(prev => ({ ...prev, [field]: value }))
EditsOf(in) ==
    { new \in PlanInputSet :
        \E field \in EditedFields :
            /\ new[field] # in[field]
            /\ \A other \in DOMAIN in \ {field} : new[other] = in[other] }

\* the lists of life events entered on the Input tab
AppLifeEvents ==
    { <<>>, <<[year |-> 1, amount |-> 300, type |-> "addition", label |-> 1]>> }

appIdle == <<startingCorpus, accumulationYears, year, month, yearEvents, balance,
             currentSIP, currentWithdrawal, totalInvested, totalWithdrawn,
             survivalMonths, yr, yearlyData, ret, mcVars, accumulation, fullRet>>

\* faulty variant: the button is disabled for a contribution of 0 only
ExportEnabledWhenNonZero(result) == result.sip.requiredSIP # 0

\* the button is not disabled
ExportEnabled(result) ==
    ~(~result.sip.isAchievable \/ result.sip.requiredSIP = 0)

GoalTabMounted == fullIn.activeTab = "goal"

InitExport ==
    /\ call = "findRetirementGoal"
    /\ pc = "app"
    /\ IdleEngines
    /\ IdleGoal
    /\ IdleMc
    /\ IdleFn
    /\ fullIn = [called |-> FALSE, activeTab |-> "input", showRealValues |-> FALSE,
                 handler |-> "none"]
    /\ accumulation = [returned |-> FALSE]
    /\ fullRet = [returned |-> FALSE]

\* the Goal tab is opened: GoalFinderTab is mounted and computes its result
GoalTabOpen ==
    /\ pc = "app"
    /\ ~GoalTabMounted
    /\ fullIn' = [fullIn EXCEPT !.activeTab = "goal", !.handler = "onTabChange"]
    /\ fnIn' = DefaultGoalInputs
    /\ fnOut' = [returned |-> FALSE]
    /\ pc' = "planStart"
    /\ UNCHANGED <<call, accParams, distParams, lifeEvents, appIdle, goalVars>>

\* another tab is opened from the Goal tab: GoalFinderTab is unmounted
GoalTabLeave ==
    /\ pc = "planDone"
    /\ GoalTabMounted
    /\ \E tab \in Tabs \ {"goal"} :
          fullIn' = [fullIn EXCEPT !.activeTab = tab, !.handler = "onTabChange"]
    /\ fnIn' = [called |-> FALSE]
    /\ fnOut' = [returned |-> FALSE]
    /\ goalIn' = [called |-> FALSE]
    /\ low' = 0
    /\ high' = 0
    /\ requiredSIP' = 0
    /\ iter' = 0
    /\ goalRet' = [returned |-> FALSE]
    /\ pc' = "app"
    /\ UNCHANGED <<call, accParams, distParams, lifeEvents, appIdle>>

\* a tab other than Goal is opened from a tab other than Goal
OtherTabOpen ==
    /\ pc = "app"
    /\ \E tab \in Tabs \ {"goal", fullIn.activeTab} :
          fullIn' = [fullIn EXCEPT !.activeTab = tab, !.handler = "onTabChange"]
    /\ UNCHANGED <<call, pc, accParams, distParams, lifeEvents, appIdle, goalVars,
                   fnVars>>

\* handleChange: one input is changed and the result is computed again
GoalInputEdit ==
    /\ pc = "planDone"
    /\ GoalTabMounted
    /\ fnIn' \in EditsOf(fnIn)
    /\ fnOut' = [returned |-> FALSE]
    /\ fullIn' = [fullIn EXCEPT !.handler = "handleChange"]
    /\ pc' = "planStart"
    /\ UNCHANGED <<call, accParams, distParams, lifeEvents, appIdle, goalVars>>

\* handleExport behind the button, and onExportToSimulator of App
ExportToSimulator ==
    /\ pc = "planDone"
    /\ GoalTabMounted
    /\ ExportEnabled(fnOut)
    /\ accParams' = fnOut.exportParams.accumulation
    /\ distParams' = fnOut.exportParams.distribution
    /\ fullIn' = [fullIn EXCEPT !.activeTab = "input",
                                !.handler = "onExportToSimulator"]
    /\ fnIn' = [called |-> FALSE]
    /\ fnOut' = [returned |-> FALSE]
    /\ goalIn' = [called |-> FALSE]
    /\ low' = 0
    /\ high' = 0
    /\ requiredSIP' = 0
    /\ iter' = 0
    /\ goalRet' = [returned |-> FALSE]
    /\ pc' = "app"
    /\ UNCHANGED <<call, lifeEvents, appIdle>>

\* the toggle of the header
ShowRealValuesToggle ==
    /\ pc \in {"app", "planDone"}
    /\ fullIn' = [fullIn EXCEPT !.showRealValues = ~fullIn.showRealValues,
                                !.handler = "setShowRealValues"]
    /\ UNCHANGED <<call, pc, accParams, distParams, lifeEvents, appIdle, goalVars,
                   fnVars>>

\* the life events form of the Input tab
LifeEventsEdit ==
    /\ pc = "app"
    /\ fullIn.activeTab = "input"
    /\ lifeEvents' \in AppLifeEvents \ {lifeEvents}
    /\ fullIn' = [fullIn EXCEPT !.handler = "setLifeEvents"]
    /\ UNCHANGED <<call, pc, accParams, distParams, appIdle, goalVars, fnVars>>

NextExport ==
    \/ GoalTabOpen \/ GoalTabLeave \/ OtherTabOpen \/ GoalInputEdit
    \/ PlanCallRequiredSIP \/ NextGoal \/ PlanReturn
    \/ ExportToSimulator \/ ShowRealValuesToggle \/ LifeEventsEdit

SpecExport == InitExport /\ [][NextExport]_vars

\* the step is an export
Exporting == fullIn'.handler = "onExportToSimulator"

\* the result of findRetirementGoal on the inputs now in the form
CurrentExport ==
    ExportParams(fnIn, calculateTargetCorpus(fnIn), goalRet)

ExportStep ==
    Exporting =>
        /\ pc = "planDone"
        /\ fnOut.inputs = fnIn
        /\ fnOut.sip.isAchievable
        /\ fnOut.sip.requiredSIP # 0
        /\ accParams' = CurrentExport.accumulation
        /\ distParams' = CurrentExport.distribution
        /\ fullIn'.activeTab = "input"
        /\ lifeEvents' = lifeEvents
        /\ fullIn'.showRealValues = fullIn.showRealValues

\* C30: the export fires only when the current result is achievable with a
\* requiredSIP other than 0, so accumulationParams.baseMonthlySIP is never
\* Infinity after any edits of the goal inputs, tab changes and exports; an
\* export replaces accumulationParams and distributionParams with the
\* exportParams of the result of the current inputs and sets the tab to
\* 'input', and leaves lifeEvents and showRealValues as they were.
C30_ExportFlow ==
    /\ [](accParams.baseMonthlySIP # Infinity)
    /\ [][ExportStep]_vars

\* an export has just happened, with life events entered and real values shown
C30_Witness ==
    /\ fullIn.handler = "onExportToSimulator"
    /\ accParams.baseMonthlySIP > 0
    /\ lifeEvents # <<>>
    /\ fullIn.showRealValues

\* the form shows a result whose contribution is Infinity
InfiniteResultShown ==
    /\ GoalTabMounted
    /\ pc = "planDone"
    /\ fnOut.sip.requiredSIP = Infinity

====
